---- MODULE Spec2Model ----
(***************************************************************************)
(* The AuthConfig reconciler (controllers/auth_config_controller.go) and   *)
(* the host index (pkg/cache) it drives; the OIDC and API-key identity     *)
(* evaluators the reconciler builds; and translateAuthConfig, from the     *)
(* evaluator entries of an AuthConfig to the evaluators of an APIConfig.   *)
(* Each part has its own specification, which holds the others fixed.      *)
(*                                                                         *)
(* Strings that the code takes apart (the cache id "namespace/name") are   *)
(* sequences of one-character strings, so that req.String() and             *)
(* strings.Split are computed and not assumed.                             *)
(***************************************************************************)
EXTENDS Naturals, Integers, Sequences, FiniteSets, TLC

\* Bounds of the model.
MaxConfigs == 3   \* APIConfig instances that translateAuthConfig builds in a run

\* types.Separator
Separator == "/"

\* The AuthConfig objects the control plane may present: two of one namespace,
\* one of another namespace (whose name starts with the first one's name).
Requests ==
    { [Namespace |-> <<"r">>, Name |-> <<"a">>],
      [Namespace |-> <<"r">>, Name |-> <<"b">>],
      [Namespace |-> <<"r", "b">>, Name |-> <<"a">>] }

Hosts == {"h1", "h2"}

\* types.NamespacedName.String(): namespace + "/" + name
ReqString(req) == req.Namespace \o <<Separator>> \o req.Name

CacheIds == {ReqString(req) : req \in Requests}

\* strings.Split(s, sep)[0]: the part of s before the first separator, all of
\* s when it holds none.
RECURSIVE SplitFirst(_, _)
SplitFirst(s, sep) ==
    IF s = <<>> \/ Head(s) = sep
    THEN <<>>
    ELSE <<Head(s)>> \o SplitFirst(Tail(s), sep)

\* An APIConfig is identified by the evaluator instances it holds: instance
\* n is the n-th APIConfig translateAuthConfig built; 0 is nil.
Configs == 1..MaxConfigs
NoEntry == [Id |-> <<>>, APIConfig |-> 0]

VARIABLES
    entries,     \* Cache: host -> (config id, APIConfig) or NoEntry
    keys,        \* Cache: config id -> set of hosts (reverse index)
    cleaned,     \* APIConfig -> how often Clean was invoked on it
    built,       \* number of APIConfigs built so far by translateAuthConfig
    installed,   \* APIConfigs that Cache.Set has put in the index at some time
    last,        \* the most recent Reconcile run alone: inputs and outcome
    procs,       \* concurrent Reconcile calls: worker -> position and locals
    oidc,        \* one OIDC identity evaluator: its fields and its last call
    goroutines,  \* the OIDC evaluator's refresh worker and one request, stepwise
    apiKey,      \* one API-key identity evaluator: its fields and its last call
    cluster,     \* the Secrets that exist in the cluster
    refresh,     \* the API-key evaluator's refresh and one request, stepwise
    translation, \* one run of translateAuthConfig: the AuthConfig and the result
    denial,      \* translateAuthConfig's deny values: the DenyWith and the result
    expansion,   \* one run of buildJSONPatternExpressions: input and result
    genericHttp  \* one generic HTTP metadata evaluator and its last call

reconcilerVars == <<entries, keys, cleaned, built, installed, last, procs>>
oidcVars == <<oidc, goroutines>>
apiKeyVars == <<apiKey, cluster, refresh>>
translateVars == <<translation, denial, expansion>>
httpVars == <<genericHttp>>

\* The evaluators' state, which no step of the reconciler touches.
evalVars == <<oidcVars, apiKeyVars, translateVars, httpVars>>

\* What the steps of the OIDC evaluator, of the API-key evaluator, of the
\* translation and of the generic HTTP evaluator leave alone.
notOIDC == <<reconcilerVars, apiKeyVars, translateVars, httpVars>>
notAPIKey == <<reconcilerVars, oidcVars, translateVars, httpVars>>
notTranslate == <<reconcilerVars, oidcVars, apiKeyVars, httpVars>>
notGenericHttp == <<reconcilerVars, oidcVars, apiKeyVars, translateVars>>

vars == <<entries, keys, cleaned, built, installed, last, procs, oidc, goroutines,
          apiKey, cluster, refresh, translation, denial, expansion, genericHttp>>

----------------------------------------------------------------------------
\* The host index (pkg/cache.Cache), operations on the pair (entries, keys).
\* The package is used by the reconciler through its interface; its
\* operations follow the design's description of the host index: a map from
\* host to (config id, APIConfig) and a reverse map from config id to hosts.
\* Clean on a removed APIConfig and the namespace test of the collision rule
\* are made by the caller (cleanConfigs, Reconcile), not by the index.

\* Get(host): the APIConfig bound to host, 0 (nil) when there is none.
CacheGet(e, host) == e[host].APIConfig

\* FindId(host) -> (id, found)
CacheFound(e, host) == e[host] # NoEntry
CacheFindId(e, host) == e[host].Id

\* FindKeys(id): the hosts recorded for the config id.
CacheFindKeys(k, id) == k[id]

\* Set(id, host, config, override) fails when host is bound to another config
\* id, unless override is set. (The namespace test of the collision rule is
\* made by the caller, Reconcile.)
CacheSetAllowed(e, id, host, override) ==
    \/ ~CacheFound(e, host)
    \/ CacheFindId(e, host) = id
    \/ override

\* Set, when it does not fail: binds host and records it for id.
CacheSetEntries(e, id, host, cfg) ==
    [e EXCEPT ![host] = [Id |-> id, APIConfig |-> cfg]]

\* A variant of Set that records only the last host bound for a config id.
CacheSetKeysLastOnly(k, id, host) == [k EXCEPT ![id] = {host}]

CacheSetKeys(k, id, host) == [k EXCEPT ![id] = @ \cup {host}]

\* Delete(id): removes all host bindings of id, and id's reverse entry.
CacheDeleteEntries(e, id) ==
    [h \in Hosts |-> IF e[h].Id = id THEN NoEntry ELSE e[h]]

CacheDeleteKeys(k, id) == [k EXCEPT ![id] = {}]

----------------------------------------------------------------------------
\* AuthConfigReconciler

\* cleanConfigs(cacheId): the APIConfig on which Clean is invoked, 0 when none
\* is. The code takes hosts[0] of FindKeys; the index keeps a set of hosts, so
\* the first host is any of them.
cleanConfigsTargets(e, k, cacheId) ==
    IF CacheFindKeys(k, cacheId) = {}
    THEN {0}
    ELSE {CacheGet(e, h) : h \in CacheFindKeys(k, cacheId)}

\* authConfig.Clean(ctx): the invocations on each APIConfig are counted as
\* never, once, or repeated (twice or more).
Clean(cl, cfg) ==
    IF cfg = 0
    THEN cl
    ELSE [cl EXCEPT ![cfg] = IF @ = "never" THEN "once" ELSE "repeated"]

\* A variant of the collision check that tests the cached key for the prefix
\* req.Namespace instead of splitting it at the separator.
RECURSIVE HasPrefix(_, _)
HasPrefix(s, prefix) ==
    IF prefix = <<>> THEN TRUE
    ELSE IF s = <<>> THEN FALSE
    ELSE Head(s) = Head(prefix) /\ HasPrefix(Tail(s), Tail(prefix))

HostTakenByPrefix(e, host, req) ==
    /\ e[host] # [Id |-> <<>>, APIConfig |-> 0]
    /\ ~HasPrefix(e[host].Id, req.Namespace)

\* Reconcile's check for a host collision with another namespace
HostTakenInAnotherNamespace(e, host, req) ==
    /\ CacheFound(e, host)
    /\ SplitFirst(CacheFindId(e, host), Separator) # req.Namespace

\* the override argument Reconcile passes to Cache.Set
SetOverride == TRUE

\* The orders in which `range authConfigByHost` may visit the hosts.
RangeOrders(hs) ==
    {s \in [1..Cardinality(hs) -> hs] :
        \A i, j \in 1..Cardinality(hs) : i # j => s[i] # s[j]}

\* ctrl.Result{}
EmptyResult == [Requeue |-> FALSE, RequeueAfter |-> 0]

\* A variant of the host-taken return that hands the collision to the caller
\* as an error.
ReturnHostTakenAsError ==
    [err |-> "hostTaken", result |-> EmptyResult,
     log |-> "host already taken in another namespace"]

\* What Reconcile returns (and logs) at each of its return statements.
ReturnGetError ==
    [err |-> "getError", result |-> EmptyResult, log |-> "none"]
ReturnTranslateError ==
    [err |-> "translateError", result |-> EmptyResult, log |-> "none"]
ReturnHostTaken ==
    [err |-> "nil", result |-> EmptyResult,
     log |-> "host already taken in another namespace"]
ReturnSetError ==
    [err |-> "setError", result |-> EmptyResult, log |-> "none"]
ReturnReconciled ==
    [err |-> "nil", result |-> EmptyResult, log |-> "resource reconciled"]
\* not a return: the loop goes on to the next host
Continue == [err |-> "nil", result |-> EmptyResult, log |-> "none"]

\* A variant of the loop body that leaves a host alone when it is bound to
\* another config id of the same namespace.
HostStepSkipBound(e, k, req, cfg, host) ==
    IF HostTakenInAnotherNamespace(e, host, req)
    THEN [entries |-> e, keys |-> k, ret |-> ReturnHostTaken, setCalls |-> 0]
    ELSE IF CacheFound(e, host) /\ CacheFindId(e, host) # ReqString(req)
    THEN [entries |-> e, keys |-> k, ret |-> Continue, setCalls |-> 0]
    ELSE [entries |-> CacheSetEntries(e, ReqString(req), host, cfg),
          keys |-> CacheSetKeys(k, ReqString(req), host),
          ret |-> Continue, setCalls |-> 1]

\* One iteration of Reconcile's loop over authConfigByHost, for `host`, from
\* cache state (e, k): the cache state after it, whether Reconcile returns
\* (and what), and the number of Cache.Set calls made.
HostStep(e, k, req, cfg, host) ==
    IF HostTakenInAnotherNamespace(e, host, req)
    THEN [entries |-> e, keys |-> k, ret |-> ReturnHostTaken, setCalls |-> 0]
    ELSE IF ~CacheSetAllowed(e, ReqString(req), host, SetOverride)
    THEN [entries |-> e, keys |-> k, ret |-> ReturnSetError, setCalls |-> 1]
    ELSE [entries |-> CacheSetEntries(e, ReqString(req), host, cfg),
          keys |-> CacheSetKeys(k, ReqString(req), host),
          ret |-> Continue, setCalls |-> 1]

\* Reconcile's loop over authConfigByHost, visiting the hosts of `order`; n
\* counts the Cache.Set calls made so far.
RECURSIVE SetHosts(_, _, _, _, _, _)
SetHosts(e, k, req, cfg, order, n) ==
    IF order = <<>>
    THEN [entries |-> e, keys |-> k, ret |-> ReturnReconciled, setCalls |-> n]
    ELSE LET step == HostStep(e, k, req, cfg, Head(order))
         IN  IF step.ret # Continue
             THEN [entries |-> step.entries, keys |-> step.keys,
                   ret |-> step.ret, setCalls |-> n + step.setCalls]
             ELSE SetHosts(step.entries, step.keys, req, cfg, Tail(order),
                           n + step.setCalls)

\* The record kept of a Reconcile: the request and what it met (the result of
\* r.Get, whether the object is watched, whether translation succeeded, the
\* hosts listed), and what it did (the APIConfig cleanConfigs cleaned, the
\* Cache.Set calls, the return).
Outcome(req, fetch, watched, translateOK, hosts, target, setCalls, ret) ==
    [req |-> req, fetch |-> fetch, watched |-> watched,
     translateOK |-> translateOK, hosts |-> hosts, target |-> target,
     setCalls |-> setCalls, err |-> ret.err, result |-> ret.result,
     log |-> ret.log]

\* A variant of the failed r.Get that cleans the workers of the config before
\* it returns, as the other branches do.
ReconcileGetErrorCleaning(req) ==
    \E target \in cleanConfigsTargets(entries, keys, ReqString(req)) :
       /\ cleaned' = Clean(cleaned, target)
       /\ last' = Outcome(req, "error", FALSE, FALSE, {}, target, 0, ReturnGetError)
       /\ UNCHANGED <<entries, keys, built, installed, procs, evalVars>>

\* r.Get failed with an error other than NotFound.
ReconcileGetError(req) ==
    /\ last' = Outcome(req, "error", FALSE, FALSE, {}, 0, 0, ReturnGetError)
    /\ UNCHANGED <<entries, keys, cleaned, built, installed, procs, evalVars>>

\* A variant of the deletion branch that cleans the workers and leaves the
\* bindings of an AuthConfig that is found and not watched.
ReconcileDeletedKeepUnwatched(req, fetch) ==
    \E target \in cleanConfigsTargets(entries, keys, ReqString(req)) :
       /\ cleaned' = Clean(cleaned, target)
       /\ entries' = IF fetch = "found" THEN entries
                     ELSE CacheDeleteEntries(entries, ReqString(req))
       /\ keys' = IF fetch = "found" THEN keys
                  ELSE CacheDeleteKeys(keys, ReqString(req))
       /\ last' = Outcome(req, fetch, FALSE, FALSE, {}, target, 0, ReturnReconciled)
       /\ UNCHANGED <<built, installed, procs, evalVars>>

\* The AuthConfig was not found (fetch = "notFound"), or was found and is not
\* watched by this controller.
ReconcileDeleted(req, fetch) ==
    \E target \in cleanConfigsTargets(entries, keys, ReqString(req)) :
       /\ cleaned' = Clean(cleaned, target)
       /\ entries' = CacheDeleteEntries(entries, ReqString(req))
       /\ keys' = CacheDeleteKeys(keys, ReqString(req))
       /\ last' = Outcome(req, fetch, FALSE, FALSE, {}, target, 0, ReturnReconciled)
       /\ UNCHANGED <<built, installed, procs, evalVars>>

\* A variant of the failed translation that drops the bindings of the config,
\* as the deletion branch does.
ReconcileTranslateErrorDropping(req) ==
    \E target \in cleanConfigsTargets(entries, keys, ReqString(req)) :
       /\ cleaned' = Clean(cleaned, target)
       /\ entries' = CacheDeleteEntries(entries, ReqString(req))
       /\ keys' = CacheDeleteKeys(keys, ReqString(req))
       /\ last' = Outcome(req, "found", TRUE, FALSE, {}, target, 0,
                          ReturnTranslateError)
       /\ UNCHANGED <<built, installed, procs, evalVars>>

\* The AuthConfig was found and is watched, and translateAuthConfig failed.
ReconcileTranslateError(req) ==
    \E target \in cleanConfigsTargets(entries, keys, ReqString(req)) :
       /\ cleaned' = Clean(cleaned, target)
       /\ last' = Outcome(req, "found", TRUE, FALSE, {}, target, 0,
                          ReturnTranslateError)
       /\ UNCHANGED <<entries, keys, built, installed, procs, evalVars>>

\* The AuthConfig was found and is watched, and translateAuthConfig gave one
\* new APIConfig for all the hosts it lists.
ReconcileTranslated(req, hosts) ==
    /\ built < MaxConfigs
    /\ \E target \in cleanConfigsTargets(entries, keys, ReqString(req)) :
       \E order \in RangeOrders(hosts) :
          LET cfg == built + 1
              out == SetHosts(entries, keys, req, cfg, order, 0)
          IN  /\ cleaned' = Clean(cleaned, target)
              /\ built' = cfg
              /\ entries' = out.entries
              /\ keys' = out.keys
              /\ installed' = IF \E h \in Hosts : out.entries[h].APIConfig = cfg
                              THEN installed \cup {cfg}
                              ELSE installed
              /\ last' = Outcome(req, "found", TRUE, TRUE, hosts, target,
                                 out.setCalls, out.ret)
              /\ UNCHANGED <<procs, evalVars>>

Reconcile(req) ==
    \/ ReconcileGetError(req)
    \/ \E fetch \in {"notFound", "found"} : ReconcileDeleted(req, fetch)
    \/ ReconcileTranslateError(req)
    \/ \E hosts \in SUBSET Hosts : ReconcileTranslated(req, hosts)

\* The workers that run Reconcile concurrently, and a worker that runs none.
----------------------------------------------------------------------------
\* The OIDC identity evaluator (pkg/config/identity, OIDC).

\* The provider configurations the discovery endpoint may publish, each named
\* by the key set its issuer signs with; goidc.NewProvider answers with one of
\* them or fails.
ProviderConfigs == {"A", "B"}
DiscoveryResults == ProviderConfigs \cup {"error"}

\* What GetCredentialsFromReq extracts from a request: <<>> when the request
\* carries no credential (an error), else a token <<signing key, payload>>.
Tokens == {"A", "B", "forged"} \X {"json", "malformed"}
Credentials == {<<>>} \cup Tokens

\* The request's context.
Contexts == {"live", "context canceled", "context deadline exceeded"}

\* The names GetURL is asked for, and what discovery claims hold under them.
ClaimNames == {"userinfo_endpoint", "claims_supported", "registration_endpoint",
               "check_session_iframe"}
ProviderClaim(name) ==
    CASE name = "userinfo_endpoint" -> "url"
      [] name = "check_session_iframe" -> "unparseable"
      [] name = "claims_supported" -> "list"
      [] OTHER -> "absent"

\* The ttl values an identity is configured with (seconds; 0 disables).
TTLs == {0, 30}

\* cron.StartWorker(ctx, ttl, task): a periodic task with a stop channel; an
\* interval that is not positive starts nothing and is an error.
StartWorker(ttl) ==
    IF ttl > 0
    THEN [refresher |-> "running", err |-> "nil"]
    ELSE [refresher |-> "nil", err |-> "interval not positive"]

\* cron.Worker.Stop(): signals the worker's stop channel; stopping a worker
\* that is already stopped is not an error.
WorkerStop(w) == [refresher |-> "stopped", err |-> "nil"]

\* common.CheckContext(ctx): the context's error when it is done.
CheckContext(ctx) == IF ctx = "live" THEN "nil" ELSE ctx

getProviderStoringFailure(p, force, disc) ==
    IF p = "nil" \/ force
    THEN [provider |-> IF disc = "error" THEN "nil" ELSE disc, discovered |-> TRUE]
    ELSE [provider |-> p, discovered |-> FALSE]

getProviderOnlyWhenForced(p, force, disc) ==
    IF force
    THEN [provider |-> IF disc = "error" THEN p ELSE disc, discovered |-> TRUE]
    ELSE [provider |-> p, discovered |-> FALSE]

\* getProvider(ctx, force): discovery runs when no provider is held or when
\* forced; a failed discovery keeps the provider held.
getProvider(p, force, disc) ==
    IF p = "nil" \/ force
    THEN [provider |-> IF disc = "error" THEN p ELSE disc, discovered |-> TRUE]
    ELSE [provider |-> p, discovered |-> FALSE]

\* provider.Verifier(...).Verify(ctx, accessToken)
Verify(p, token) == token[1] = p

Result(p, discovered, verified, ret, err) ==
    [provider |-> p, discovered |-> discovered, verified |-> verified,
     ret |-> ret, err |-> err]

verifyTokenUnverifiedWithoutProvider(p, token, disc) ==
    LET g == getProvider(p, FALSE, disc) IN
    IF g.provider = "nil"
    THEN Result(g.provider, g.discovered, FALSE, token, "nil")
    ELSE IF Verify(g.provider, token)
         THEN Result(g.provider, g.discovered, TRUE, token, "nil")
         ELSE Result(g.provider, g.discovered, TRUE, <<>>, "verification failed")

\* verifyToken(ctx, accessToken): ret is the verified idToken
verifyToken(p, token, disc) ==
    LET g == getProvider(p, FALSE, disc) IN
    IF g.provider = "nil"
    THEN Result(g.provider, g.discovered, FALSE, <<>>,
                "missing openid connect configuration")
    ELSE IF Verify(g.provider, token)
         THEN Result(g.provider, g.discovered, TRUE, token, "nil")
         ELSE Result(g.provider, g.discovered, TRUE, <<>>, "verification failed")

\* idToken.Claims(&claims)
Claims(idToken) ==
    IF idToken[2] = "json"
    THEN [claims |-> <<"claims", idToken[1]>>, err |-> "nil"]
    ELSE [claims |-> <<>>, err |-> "malformed claims"]

decodeAndVerifyTokenCheckingLast(p, token, ctx, disc) ==
    LET v == verifyToken(p, token, disc) IN
    IF v.err # "nil"
    THEN v
    ELSE IF CheckContext(ctx) # "nil"
         THEN Result(v.provider, v.discovered, v.verified, <<>>, CheckContext(ctx))
         ELSE Result(v.provider, v.discovered, v.verified, Claims(v.ret).claims,
                     Claims(v.ret).err)

\* decodeAndVerifyToken(ctx, accessToken): ret is the claims
decodeAndVerifyToken(p, token, ctx, disc) ==
    IF CheckContext(ctx) # "nil"
    THEN Result(p, FALSE, FALSE, <<>>, CheckContext(ctx))
    ELSE LET v == verifyToken(p, token, disc) IN
         IF v.err # "nil"
         THEN v
         ELSE Result(v.provider, v.discovered, v.verified, Claims(v.ret).claims,
                     Claims(v.ret).err)

\* Call(pipeline, ctx): cred is what GetCredentialsFromReq(pipeline.GetHttp())
\* extracts from the request
OIDCCall(p, cred, ctx, disc) ==
    IF cred = <<>>
    THEN Result(p, FALSE, FALSE, <<>>, "credential not found")
    ELSE decodeAndVerifyToken(p, cred, ctx, disc)

\* GetURL(name, ctx): ret is "url" for the parsed URL; err "panic" is a run-time
\* panic (nil pointer dereference of the provider, failed type assertion).
GetURL(p, name, disc) ==
    LET g == getProvider(p, FALSE, disc) IN
    IF g.provider = "nil"
    THEN Result(g.provider, g.discovered, FALSE, <<>>, "panic")
    ELSE CASE ProviderClaim(name) = "url"
                -> Result(g.provider, g.discovered, FALSE, <<"url">>, "nil")
           [] ProviderClaim(name) = "unparseable"
                -> Result(g.provider, g.discovered, FALSE, <<>>, "parse error")
           [] OTHER
                -> Result(g.provider, g.discovered, FALSE, <<>>, "panic")

\* configureProviderRefresh(ctx, ttl): the refresher field after it
configureProviderRefresh(ttl) == StartWorker(ttl).refresher

OIDCCleanClearingProvider(p, refresher) ==
    IF refresher = "nil"
    THEN [provider |-> "nil", refresher |-> refresher, err |-> "nil"]
    ELSE [provider |-> "nil", refresher |-> WorkerStop(refresher).refresher,
          err |-> WorkerStop(refresher).err]

OIDCCleanWithoutNilCheck(p, refresher) ==
    IF refresher = "nil"
    THEN [provider |-> p, refresher |-> refresher, err |-> "panic"]
    ELSE [provider |-> p, refresher |-> WorkerStop(refresher).refresher,
          err |-> WorkerStop(refresher).err]

OIDCCleanWithoutStop(p, refresher) ==
    [provider |-> p, refresher |-> refresher, err |-> "nil"]

\* Clean(ctx)
OIDCClean(p, refresher) ==
    IF refresher = "nil"
    THEN [provider |-> p, refresher |-> refresher, err |-> "nil"]
    ELSE [provider |-> p, refresher |-> WorkerStop(refresher).refresher,
          err |-> WorkerStop(refresher).err]

\* The record of the evaluator's most recent operation; answer is what the
\* discovery endpoint answered when the operation ran a discovery.
Op(name, cred, ctx, claimName, p, refresher, cleans, disc, r) ==
    [name |-> name, cred |-> cred, ctx |-> ctx, claimName |-> claimName,
     provider |-> p, refresher |-> refresher, cleans |-> cleans,
     answer |-> IF r.discovered THEN disc ELSE "none",
     discovered |-> r.discovered, verified |-> r.verified, ret |-> r.ret,
     err |-> r.err]

\* NewOIDC(name, endpoint, authCred, ttl, ctx): the evaluator constructed
NewOIDC(ttl, disc) ==
    LET g == getProvider("nil", FALSE, disc) IN
    [provider |-> g.provider,
     refresher |-> configureProviderRefresh(ttl),
     cleans |-> "never",
     op |-> Op("NewOIDC", <<>>, "live", "userinfo_endpoint", "nil", "nil", "never",
               disc, Result(g.provider, g.discovered, FALSE, <<>>, "nil"))]

NoOIDC == NewOIDC(0, "error")

\* The refresh worker (at its select, or inside the task between discovery
\* and the write of the provider field) and one request inside getProvider.
NoGoroutines ==
    [worker |-> [pc |-> "select", disc |-> "error"],
     request |-> [pc |-> "idle", disc |-> "error", read |-> "nil"]]

----------------------------------------------------------------------------
\* The API-key identity evaluator (APIKey).

\* The namespaces of the cluster; <<>> is the empty namespace string.
Namespaces == {req.Namespace : req \in Requests}

\* The Secrets the cluster may hold. key is the value of the Secret's
\* "api_key" data entry, labelled whether the Secret's labels match the
\* evaluator's label selectors. s1 and s3 carry the same key.
SecretUniverse ==
    { [Name |-> "s1", Namespace |-> <<"r">>, key |-> "k1", labelled |-> TRUE],
      [Name |-> "s2", Namespace |-> <<"r", "b">>, key |-> "k2", labelled |-> TRUE],
      [Name |-> "s3", Namespace |-> <<"r">>, key |-> "k1", labelled |-> TRUE],
      [Name |-> "s4", Namespace |-> <<"r", "b">>, key |-> "k3", labelled |-> FALSE] }

NoSecret == [Name |-> "nil", Namespace |-> <<>>, key |-> "", labelled |-> FALSE]

\* What GetCredentialsFromReq extracts from a request: <<>> when the request
\* carries no credential (an error), else <<the key presented>>.
RequestKeys == {<<>>, <<"k1">>, <<"k2">>, <<"k3">>, <<"k9">>}

\* The Secrets a k8sClient.List with MatchingLabels(LabelSelectors), and with
\* InNamespace(namespace) when namespace is not empty, selects.
Listed(secrets, namespace) ==
    {s \in secrets : s.labelled /\ (namespace = <<>> \/ s.Namespace = namespace)}

\* The orders in which the items of a listing may come.
RECURSIVE Orderings(_)
Orderings(S) ==
    IF S = {}
    THEN {<<>>}
    ELSE UNION { {<<s>> \o rest : rest \in Orderings(S \ {s})} : s \in S }

\* The outcomes of k8sClient.List: an error, or the selected Secrets in some
\* order.
Listings(secrets, namespace) ==
    {[err |-> "list failed", items |-> <<>>]}
    \cup {[err |-> "nil", items |-> items] :
             items \in Orderings(Listed(secrets, namespace))}

\* parsedSecrets after the loop of GetCredentialsFromCluster over the items:
\* a map from api_key value to Secret, a later item replacing an earlier one
\* of the same key.
RECURSIVE parsedSecrets(_)
parsedSecrets(items) ==
    IF items = <<>>
    THEN <<>>
    ELSE LET m == parsedSecrets(SubSeq(items, 1, Len(items) - 1))
             s == items[Len(items)]
         IN [k \in (DOMAIN m) \cup {s.key} |-> IF k = s.key THEN s ELSE m[k]]

GetCredentialsFromClusterMerging(authorizedCredentials, listing) ==
    IF listing.err # "nil"
    THEN [authorizedCredentials |-> authorizedCredentials, err |-> listing.err]
    ELSE LET m == parsedSecrets(listing.items) IN
         [authorizedCredentials |->
              [k \in (DOMAIN authorizedCredentials) \cup (DOMAIN m) |->
                  IF k \in DOMAIN m THEN m[k] ELSE authorizedCredentials[k]],
          err |-> "nil"]

\* GetCredentialsFromCluster(ctx): the authorized credentials after it and
\* the error it returns, given the outcome of the listing.
GetCredentialsFromCluster(authorizedCredentials, listing) ==
    IF listing.err # "nil"
    THEN [authorizedCredentials |-> authorizedCredentials, err |-> listing.err]
    ELSE [authorizedCredentials |-> parsedSecrets(listing.items), err |-> "nil"]

APIKeyCallNoMatchNoError(authorizedCredentials, cred) ==
    IF cred = <<>>
    THEN [secret |-> NoSecret, err |-> "credential not found"]
    ELSE IF cred[1] \in DOMAIN authorizedCredentials
         THEN [secret |-> authorizedCredentials[cred[1]], err |-> "nil"]
         ELSE [secret |-> NoSecret, err |-> "nil"]

\* Call(pipeline, ctx): cred is what GetCredentialsFromReq(pipeline.GetHttp())
\* extracts from the request
APIKeyCall(authorizedCredentials, cred) ==
    IF cred = <<>>
    THEN [secret |-> NoSecret, err |-> "credential not found"]
    ELSE IF cred[1] \in DOMAIN authorizedCredentials
         THEN [secret |-> authorizedCredentials[cred[1]], err |-> "nil"]
         ELSE [secret |-> NoSecret, err |-> "the API Key provided is invalid"]

\* r.ClusterWide()
ClusterWide(reconcilerNamespace) == reconcilerNamespace = <<>>

APIKeyNamespaceOfAnyFlag(authConfigNamespace, allNamespaces, reconcilerNamespace) ==
    IF allNamespaces \/ ClusterWide(reconcilerNamespace)
    THEN <<>>
    ELSE authConfigNamespace

\* translateAuthConfig, case api.IdentityApiKey: the namespace handed to
\* NewApiKeyIdentity
APIKeyNamespace(authConfigNamespace, allNamespaces, reconcilerNamespace) ==
    IF allNamespaces /\ ClusterWide(reconcilerNamespace)
    THEN <<>>
    ELSE authConfigNamespace

\* The record of the evaluator's most recent operation.
APIKeyOp(name, cred, before, secret, err) ==
    [name |-> name, cred |-> cred, before |-> before, secret |-> secret,
     err |-> err]

\* NewApiKeyIdentity(name, labelSelectors, namespace, authCred, k8sClient, ctx)
\* as translateAuthConfig calls it: from is the identity's declaration, for
\* the record.
NewApiKeyIdentity(from, namespace, listing) ==
    LET g == GetCredentialsFromCluster(<<>>, listing) IN
    [Namespace |-> namespace,
     authorizedCredentials |-> g.authorizedCredentials,
     from |-> from,
     op |-> APIKeyOp("NewApiKeyIdentity", <<>>, <<>>, NoSecret, g.err)]

\* The API-key identities an AuthConfig may declare, under the reconcilers
\* that may watch it: one of the AuthConfig's namespace or a cluster-wide one.
APIKeyDeclarations ==
    {d \in [authConfigNamespace : Namespaces, allNamespaces : BOOLEAN,
            reconcilerNamespace : Namespaces \cup {<<>>}] :
        d.reconcilerNamespace \in {<<>>, d.authConfigNamespace}}

NoAPIKey ==
    NewApiKeyIdentity([authConfigNamespace |-> <<"r">>, allNamespaces |-> FALSE,
                       reconcilerNamespace |-> <<"r">>],
                      <<"r">>, [err |-> "list failed", items |-> <<>>])

----------------------------------------------------------------------------
\* The values translateAuthConfig builds: static-or-dynamic values, deny
\* values, pattern expressions. A pointer that may be nil is a sequence of
\* at most one element.

MaxHeaders == 2   \* headers a DenyWithSpec declares
MaxRules == 2     \* pattern rules of a condition list

\* int32(x): a value within 32 bits is kept, a larger one wraps around.
MaxInt32 == 2147483647
Int32(x) ==
    IF x > MaxInt32
    THEN x - MaxInt32 - MaxInt32 - 2
    ELSE IF x < -MaxInt32 - 1
    THEN x + MaxInt32 + MaxInt32 + 2
    ELSE x

\* The properties an AuthConfig may declare (api.JsonProperty): a literal
\* Value, a selector ValueFrom.AuthJSON, or both.
JsonProperties ==
    { [Name |-> "x-a", Value |-> "lit", AuthJSON |-> ""],
      [Name |-> "x-b", Value |-> "", AuthJSON |-> "auth.identity.sub"],
      [Name |-> "x-c", Value |-> "lit", AuthJSON |-> "auth.identity.sub"] }

\* common.JSONValue{Static: value, Pattern: valueFrom.AuthJSON}
JSONValue(value, authJSON) == [Static |-> value, Pattern |-> authJSON]

\* common.JSONProperty{Name: property.Name, Value: common.JSONValue{...}}
JSONProperty(property) ==
    [Name |-> property.Name, Value |-> JSONValue(property.Value, property.AuthJSON)]

\* The DenyWithSpec blocks an AuthConfig may declare.
DenyWithSpecs ==
    UNION { [Code : {302, 403}, Message : {"denied"},
             Headers : [1..n -> JsonProperties],
             Body : {<<>>, <<"body">>}] : n \in 0..MaxHeaders }

\* authConfig.Spec.DenyWith: nil, or the two optional blocks.
DenyWiths ==
    {<<>>} \cup
    { <<[Unauthenticated |-> u, Unauthorized |-> a]>> :
         u \in {<<>>} \cup {<<d>> : d \in DenyWithSpecs},
         a \in {<<>>} \cup {<<d>> : d \in DenyWithSpecs} }

\* buildAuthorinoDenyWithValues(denyWithSpec)
buildAuthorinoDenyWithValues(denyWithSpec) ==
    IF denyWithSpec = <<>>
    THEN <<>>
    ELSE << [Code |-> Int32(denyWithSpec[1].Code),
             Message |-> denyWithSpec[1].Message,
             Headers |-> [i \in DOMAIN denyWithSpec[1].Headers |->
                             JSONProperty(denyWithSpec[1].Headers[i])]] >>

\* translateAuthConfig, "denyWith": the Unauthenticated and Unauthorized
\* fields of the APIConfig
translateDenyWith(denyWith) ==
    IF denyWith = <<>>
    THEN [Unauthenticated |-> <<>>, Unauthorized |-> <<>>]
    ELSE [Unauthenticated |->
              buildAuthorinoDenyWithValues(denyWith[1].Unauthenticated),
          Unauthorized |->
              buildAuthorinoDenyWithValues(denyWith[1].Unauthorized)]

UntranslatedDenial(denyWith) ==
    [denyWith |-> denyWith, done |-> FALSE, Unauthenticated |-> <<>>,
     Unauthorized |-> <<>>]

NoDenial == UntranslatedDenial(<<>>)

\* The pattern expressions an AuthConfig may write.
Expressions ==
    { [Selector |-> "context.request.http.method", Operator |-> "eq",
       Value |-> "GET"],
      [Selector |-> "auth.identity.role", Operator |-> "incl", Value |-> "admin"] }
OtherExpression ==
    [Selector |-> "context.request.http.path", Operator |-> "matches",
     Value |-> "^/api"]
EmptyExpression == [Selector |-> "", Operator |-> "", Value |-> ""]

\* The pattern rules (api.JSONPattern): an inline expression, with an empty
\* JSONPatternName, or a reference by name, with an empty expression.
JSONPatterns ==
    [JSONPatternName : {""}, JSONPatternExpression : Expressions]
    \cup [JSONPatternName : {"p", "q"}, JSONPatternExpression : {EmptyExpression}]

\* authConfig.Spec.Patterns: the named patterns, a map from name to
\* expressions. No map defines a pattern named "q".
NamedPatterns ==
    UNION { [names -> {<<OtherExpression>>,
                       <<OtherExpression, EmptyExpression>>}] :
               names \in SUBSET {"", "p"} }

\* common.JSONPatternMatchingRule{Selector, Operator: string(Operator), Value}
JSONPatternMatchingRule(expression) ==
    [Selector |-> expression.Selector, Operator |-> expression.Operator,
     Value |-> expression.Value]

\* The expressions the loop adds for one rule.
expressionsToAdd(patterns, pattern) ==
    IF pattern.JSONPatternName \in DOMAIN patterns
    THEN patterns[pattern.JSONPatternName]
    ELSE <<pattern.JSONPatternExpression>>

\* buildJSONPatternExpressions(authConfig, patterns)
RECURSIVE buildJSONPatternExpressions(_, _)
buildJSONPatternExpressions(patterns, rules) ==
    IF rules = <<>>
    THEN <<>>
    ELSE LET toAdd == expressionsToAdd(patterns, Head(rules)) IN
         [i \in DOMAIN toAdd |-> JSONPatternMatchingRule(toAdd[i])]
         \o buildJSONPatternExpressions(patterns, Tail(rules))

Unexpanded(patterns, rules) ==
    [patterns |-> patterns, rules |-> rules, done |-> FALSE, expressions |-> <<>>]

NoExpansion == Unexpanded(<<>>, <<>>)

----------------------------------------------------------------------------
\* translateAuthConfig: from the evaluator entries an AuthConfig declares to
\* the evaluators of the APIConfig.

MaxEvaluators == 2   \* evaluator entries an AuthConfig declares, all phases

EvaluatorNames == {"x", "y"}

\* authConfig.Spec.Patterns of the AuthConfigs translated.
DeclaredPatterns == [p \in {"p"} |-> <<OtherExpression>>]

\* What every evaluator entry declares besides its name and type: priority,
\* conditions, cache descriptor (nil or key and TTL) and metrics flag.
CommonAttributes ==
    { [Priority |-> 0, Conditions |-> <<>>, Cache |-> <<>>, Metrics |-> FALSE],
      [Priority |-> 1,
       Conditions |-> <<[JSONPatternName |-> "p",
                         JSONPatternExpression |-> EmptyExpression]>>,
       Cache |-> <<[Key |-> "context.request.http.path", TTL |-> 60]>>,
       Metrics |-> TRUE] }

\* The entries of each phase: identity.GetType() and its like are the Type;
\* a userinfo metadata entry names an identity as its IdentitySource.
Entries(names, types, sources) ==
    { [Name |-> n, Type |-> t, IdentitySource |-> s, Priority |-> c.Priority,
       Conditions |-> c.Conditions, Cache |-> c.Cache, Metrics |-> c.Metrics] :
         n \in names, t \in types, s \in sources, c \in CommonAttributes }
IdentityEntries == Entries(EvaluatorNames, {"oidc", "apiKey", "unknown"}, {""})
MetadataEntries ==
    Entries(EvaluatorNames, {"userinfo"}, EvaluatorNames)
    \cup Entries(EvaluatorNames, {"unknown"}, {"x"})
AuthorizationEntries == Entries(EvaluatorNames, {"json", "unknown"}, {""})
ResponseEntries == Entries(EvaluatorNames, {"dynamicJSON", "unknown"}, {""})

\* The numbers of entries of the four phases of an AuthConfig.
PhaseLengths ==
    {l \in [1..4 -> 0..MaxEvaluators] : l[1] + l[2] + l[3] + l[4] <= MaxEvaluators}

AuthConfigs ==
    UNION { [Patterns : {DeclaredPatterns},
             Identity : [1..l[1] -> IdentityEntries],
             Metadata : [1..l[2] -> MetadataEntries],
             Authorization : [1..l[3] -> AuthorizationEntries],
             Response : [1..l[4] -> ResponseEntries]] : l \in PhaseLengths }

\* The fields every translated evaluator is built with: Name, Priority,
\* Conditions and Metrics of its entry.
translatedEvaluator(patterns, entry) ==
    [Name |-> entry.Name, Type |-> entry.Type, Priority |-> entry.Priority,
     Conditions |-> buildJSONPatternExpressions(patterns, entry.Conditions),
     Metrics |-> entry.Metrics]

\* The evaluator with its OIDC field set to the handle h.
WithOIDC(config, h) ==
    [Name |-> config.Name, Type |-> config.Type, Priority |-> config.Priority,
     Conditions |-> config.Conditions, Metrics |-> config.Metrics, OIDC |-> h]

\* The identity loop: done are the evaluators appended so far. The OIDC
\* field is the OIDC evaluator built for the entry (the n-th evaluator built
\* is n), 0 for nil.
RECURSIVE translateIdentity(_, _, _)
translateIdentity(patterns, todo, done) ==
    IF todo = <<>>
    THEN [configs |-> done, err |-> "nil"]
    ELSE LET identity == Head(todo) IN
         IF identity.Type = "unknown"
         THEN [configs |-> <<>>, err |-> "unknown identity type"]
         ELSE translateIdentity(patterns, Tail(todo),
                  Append(done, WithOIDC(translatedEvaluator(patterns, identity),
                                        IF identity.Type = "oidc"
                                        THEN Len(done) + 1 ELSE 0)))

\* findIdentityConfigByName(identityConfigs, name)
RECURSIVE findIdentityConfigByName(_, _)
findIdentityConfigByName(identityConfigs, name) ==
    IF identityConfigs = <<>>
    THEN [found |-> FALSE, OIDC |-> 0]
    ELSE IF Head(identityConfigs).Name = name
         THEN [found |-> TRUE, OIDC |-> Head(identityConfigs).OIDC]
         ELSE findIdentityConfigByName(Tail(identityConfigs), name)

\* The metadata loop.
RECURSIVE translateMetadata(_, _, _, _)
translateMetadata(patterns, todo, done, identityConfigs) ==
    IF todo = <<>>
    THEN [configs |-> done, err |-> "nil"]
    ELSE LET metadata == Head(todo)
             idConfig == findIdentityConfigByName(identityConfigs,
                                                  metadata.IdentitySource)
         IN IF metadata.Type = "unknown"
            THEN [configs |-> <<>>, err |-> "unknown metadata type"]
            ELSE IF ~idConfig.found
                 THEN [configs |-> <<>>, err |-> "missing identity config"]
                 ELSE translateMetadata(patterns, Tail(todo),
                          Append(done, WithOIDC(translatedEvaluator(patterns, metadata),
                                                idConfig.OIDC)),
                          identityConfigs)

\* The authorization loop.
RECURSIVE translateAuthorization(_, _, _)
translateAuthorization(patterns, todo, done) ==
    IF todo = <<>>
    THEN [configs |-> done, err |-> "nil"]
    ELSE LET authorization == Head(todo) IN
         IF authorization.Type = "unknown"
         THEN [configs |-> <<>>, err |-> "unknown authorization type"]
         ELSE translateAuthorization(patterns, Tail(todo),
                  Append(done, translatedEvaluator(patterns, authorization)))

\* The response loop.
RECURSIVE translateResponse(_, _, _)
translateResponse(patterns, todo, done) ==
    IF todo = <<>>
    THEN [configs |-> done, err |-> "nil"]
    ELSE LET response == Head(todo) IN
         IF response.Type = "unknown"
         THEN [configs |-> <<>>, err |-> "unknown response type"]
         ELSE translateResponse(patterns, Tail(todo),
                  Append(done, translatedEvaluator(patterns, response)))

NoAPIConfig ==
    [IdentityConfigs |-> <<>>, MetadataConfigs |-> <<>>,
     AuthorizationConfigs |-> <<>>, ResponseConfigs |-> <<>>]

\* translateAuthConfig(ctx, authConfig): the APIConfig put under every host,
\* or the first error met
translateAuthConfig(authConfig) ==
    LET patterns == authConfig.Patterns
        identity == translateIdentity(patterns, authConfig.Identity, <<>>)
        metadata == translateMetadata(patterns, authConfig.Metadata, <<>>,
                                      identity.configs)
        authorization ==
            translateAuthorization(patterns, authConfig.Authorization, <<>>)
        response == translateResponse(patterns, authConfig.Response, <<>>)
    IN CASE identity.err # "nil" -> [apiConfig |-> NoAPIConfig, err |-> identity.err]
         [] metadata.err # "nil" -> [apiConfig |-> NoAPIConfig, err |-> metadata.err]
         [] authorization.err # "nil"
              -> [apiConfig |-> NoAPIConfig, err |-> authorization.err]
         [] response.err # "nil" -> [apiConfig |-> NoAPIConfig, err |-> response.err]
         [] OTHER
              -> [apiConfig |-> [IdentityConfigs |-> identity.configs,
                                 MetadataConfigs |-> metadata.configs,
                                 AuthorizationConfigs |-> authorization.configs,
                                 ResponseConfigs |-> response.configs],
                  err |-> "nil"]

\* An AuthConfig at hand, not translated yet.
Untranslated(authConfig) ==
    [authConfig |-> authConfig, done |-> FALSE, apiConfig |-> NoAPIConfig,
     err |-> "nil"]

NoTranslation ==
    Untranslated([Patterns |-> DeclaredPatterns, Identity |-> <<>>,
                  Metadata |-> <<>>, Authorization |-> <<>>, Response |-> <<>>])

----------------------------------------------------------------------------
\* The generic HTTP metadata evaluator. A string is a sequence of pieces of
\* text: "{" and "}" are the braces of a placeholder, every other piece is
\* text without braces.

MaxSegments == 3   \* literals and placeholders an endpoint is written with

\* The authorization JSON of a pipeline, as the values its selectors resolve
\* to (genericHttpAuthDataMock).
AuthorizationJSON ==
    [selector \in {"context.request.http.headers.x-origin", "auth.identity.user"}
       |-> IF selector = "auth.identity.user" THEN "mock" ELSE "some-origin"]

Selectors == (DOMAIN AuthorizationJSON) \cup {"auth.identity.missing"}

Literals == {"http://127.0.0.1:9005/metadata?p=", "&q="}

\* What an endpoint is written with: literal text and placeholders.
Segments == [kind : {"literal"}, text : Literals]
            \cup [kind : {"placeholder"}, text : Selectors]

\* The endpoint string written with the segments.
RECURSIVE TemplateString(_)
TemplateString(segments) ==
    IF segments = <<>>
    THEN <<>>
    ELSE (IF Head(segments).kind = "literal"
          THEN <<Head(segments).text>>
          ELSE <<"{", Head(segments).text, "}">>)
         \o TemplateString(Tail(segments))

\* Resolve(selector): the string form of the value, the empty string for an
\* unknown path
Resolve(json, selector) ==
    IF selector \in DOMAIN json THEN <<json[selector]>> ELSE <<>>

\* Render(template): the template with each {selector} replaced by the
\* string form of what the selector resolves to
RECURSIVE Render(_, _)
Render(json, template) ==
    IF template = <<>>
    THEN <<>>
    ELSE IF Len(template) >= 3 /\ template[1] = "{" /\ template[3] = "}"
         THEN Resolve(json, template[2])
              \o Render(json, SubSeq(template, 4, Len(template)))
         ELSE <<Head(template)>> \o Render(json, Tail(template))

\* translateAuthConfig, case api.MetadataGenericHTTP: the evaluator built for
\* the entry, with the endpoint as declared
translateGenericHttp(declared) == [Endpoint |-> declared.Endpoint]

GenericHttpCallWithRawEndpoint(evaluator, json) ==
    [endpoint |-> evaluator.Endpoint]

\* GenericHttp.Call(pipeline, ctx), as far as the endpoint goes: the
\* arguments of BuildRequestWithCredentials
GenericHttpCall(evaluator, json) ==
    [endpoint |-> Render(json, evaluator.Endpoint)]

\* An evaluator built from an endpoint written with the segments, not called.
NotCalled(segments) ==
    [segments |-> segments,
     evaluator |-> translateGenericHttp([Endpoint |-> TemplateString(segments)]),
     called |-> FALSE,
     request |-> [endpoint |-> <<>>]]

NoGenericHttp == NotCalled(<<>>)

----------------------------------------------------------------------------
\* The API-key evaluator under a refresh that runs while a request is served.
\* GetCredentialsFromCluster and Call take no lock and use no atomic: the
\* write of the authorizedCredentials field and of the map it points to, and
\* the reads of Call, are plain memory accesses.

\* The maps a request may see through the field once the refresh has
\* assigned it. A request that does not overlap the refresh sees the map
\* built; one that overlaps it races with the writes that filled the map and
\* may see any part of them.
Visible(m, overlapped) ==
    IF overlapped
    THEN { [k \in D |-> m[k]] : D \in SUBSET DOMAIN m }
    ELSE {m}

\* The evaluator before the refresh, with the map of its last refresh, and a
\* request not begun.
NotRefreshing(before, items, cred) ==
    [before |-> before, items |-> items, cred |-> cred,
     parsedSecrets |-> <<>>, next |-> 1, assigned |-> FALSE,
     writer |-> "idle", reader |-> "idle", overlapped |-> FALSE,
     seen |-> <<>>, secret |-> NoSecret, err |-> "nil"]

NoRefresh == NotRefreshing(<<>>, <<>>, <<>>)

----------------------------------------------------------------------------
\* The specifications of the reconciler: one Reconcile at a time, and
\* concurrent Reconcile calls step by step.

Workers == {"w1", "w2"}
Idle == [pc |-> "idle", req |-> CHOOSE r \in Requests : TRUE, cfg |-> 0,
         todo |-> {}, host |-> "none"]

ReconcilerInit ==
    /\ entries = [h \in Hosts |-> NoEntry]
    /\ keys = [id \in CacheIds |-> {}]
    /\ cleaned = [c \in Configs |-> "never"]
    /\ built = 0
    /\ installed = {}
    /\ last = Outcome(CHOOSE r \in Requests : TRUE, "none", FALSE, FALSE, {}, 0, 0,
                      Continue)
    /\ procs = [w \in Workers |-> Idle]

\* The parts of the state that a specification of another part holds fixed.
OIDCIdle == oidc = NoOIDC /\ goroutines = NoGoroutines
APIKeyIdle == apiKey = NoAPIKey /\ cluster = {} /\ refresh = NoRefresh
GenericHttpIdle == genericHttp = NoGenericHttp
TranslationIdle ==
    /\ translation = NoTranslation
    /\ denial = NoDenial
    /\ expansion = NoExpansion

\* The reconciler alone.
Init ==
    /\ ReconcilerInit
    /\ GenericHttpIdle
    /\ OIDCIdle
    /\ APIKeyIdle
    /\ TranslationIdle

Next == \E req \in Requests : Reconcile(req)

Spec == Init /\ [][Next]_vars

----------------------------------------------------------------------------
\* Reconcile calls that run concurrently, one step per write to the host
\* index and per collision check (each access to the index is made under its
\* lock). What a Reconcile does before its first write (r.Get, the reads of
\* cleanConfigs and its Clean, translateAuthConfig) is one step. The
\* controller never runs two Reconciles of one request at a time.

\* Reconcile of an AuthConfig that is not found, or not watched, up to its
\* Cache.Delete: r.Get, and cleanConfigs.
ConcBeginDelete(w, req) ==
    /\ procs[w].pc = "idle"
    /\ \A v \in Workers : procs[v].pc # "idle" => procs[v].req # req
    /\ \E target \in cleanConfigsTargets(entries, keys, ReqString(req)) :
          cleaned' = Clean(cleaned, target)
    /\ procs' = [procs EXCEPT ![w] = [Idle EXCEPT !.req = req, !.pc = "delete"]]
    /\ UNCHANGED <<entries, keys, built, installed, last, evalVars>>

\* r.Cache.Delete(cacheId), and Reconcile returns
ConcDelete(w) ==
    /\ procs[w].pc = "delete"
    /\ entries' = CacheDeleteEntries(entries, ReqString(procs[w].req))
    /\ keys' = CacheDeleteKeys(keys, ReqString(procs[w].req))
    /\ procs' = [procs EXCEPT ![w] = Idle]
    /\ UNCHANGED <<cleaned, built, installed, last, evalVars>>

\* Reconcile of a watched AuthConfig whose translation fails: r.Get,
\* cleanConfigs, translateAuthConfig, and Reconcile returns the error.
ConcTranslateError(w, req) ==
    /\ procs[w].pc = "idle"
    /\ \A v \in Workers : procs[v].pc # "idle" => procs[v].req # req
    /\ \E target \in cleanConfigsTargets(entries, keys, ReqString(req)) :
          cleaned' = Clean(cleaned, target)
    /\ UNCHANGED <<entries, keys, built, installed, last, procs, evalVars>>

\* Reconcile of a watched AuthConfig up to its loop over the hosts: r.Get,
\* cleanConfigs, and translateAuthConfig, which builds an APIConfig for the
\* hosts listed; with no host listed, Reconcile returns.
ConcBeginUpdate(w, req, hosts) ==
    /\ procs[w].pc = "idle"
    /\ \A v \in Workers : procs[v].pc # "idle" => procs[v].req # req
    /\ built < MaxConfigs
    /\ built' = built + 1
    /\ \E target \in cleanConfigsTargets(entries, keys, ReqString(req)) :
          cleaned' = Clean(cleaned, target)
    /\ procs' = [procs EXCEPT ![w] =
                    IF hosts = {}
                    THEN Idle
                    ELSE [Idle EXCEPT !.req = req, !.pc = "findId",
                                      !.cfg = built + 1, !.todo = hosts]]
    /\ UNCHANGED <<entries, keys, installed, last, evalVars>>

\* the loop takes a next host and makes the collision check with FindId; on
\* a collision Reconcile returns
ConcFindId(w, host) ==
    /\ procs[w].pc = "findId"
    /\ host \in procs[w].todo
    /\ procs' = [procs EXCEPT ![w] =
                    IF HostTakenInAnotherNamespace(entries, host, procs[w].req)
                    THEN Idle
                    ELSE [@ EXCEPT !.pc = "set", !.host = host]]
    /\ UNCHANGED <<entries, keys, cleaned, built, installed, last, evalVars>>

\* r.Cache.Set(cacheId, host, apiConfig, true); Reconcile returns on an error
\* and after the last host
ConcSet(w) ==
    /\ procs[w].pc = "set"
    /\ LET p == procs[w]
           id == ReqString(p.req)
           rest == p.todo \ {p.host}
       IN  IF CacheSetAllowed(entries, id, p.host, SetOverride)
           THEN /\ entries' = CacheSetEntries(entries, id, p.host, p.cfg)
                /\ keys' = CacheSetKeys(keys, id, p.host)
                /\ installed' = installed \cup {p.cfg}
                /\ procs' = [procs EXCEPT ![w] =
                                IF rest = {}
                                THEN Idle
                                ELSE [@ EXCEPT !.pc = "findId", !.todo = rest,
                                               !.host = "none"]]
           ELSE /\ procs' = [procs EXCEPT ![w] = Idle]
                /\ UNCHANGED <<entries, keys, installed>>
    /\ UNCHANGED <<cleaned, built, last, evalVars>>

NextConc ==
    \E w \in Workers :
       \/ \E req \in Requests : ConcBeginDelete(w, req)
       \/ ConcDelete(w)
       \/ \E req \in Requests : ConcTranslateError(w, req)
       \/ \E req \in Requests, hosts \in SUBSET Hosts : ConcBeginUpdate(w, req, hosts)
       \/ \E host \in Hosts : ConcFindId(w, host)
       \/ ConcSet(w)

SpecConc == Init /\ [][NextConc]_vars

----------------------------------------------------------------------------
\* Properties of the reconciler and the host index.

\* The namespace of the AuthConfig a config id was formed from.
OwnerNamespace(id) == (CHOOSE req \in Requests : ReqString(req) = id).Namespace

\* host is bound, in index e, to a config of a namespace other than ns
TakenElsewhere(e, host, ns) ==
    e[host] # NoEntry /\ OwnerNamespace(e[host].Id) # ns

\* the Reconcile recorded in r processed an existing, watched AuthConfig
\* whose translation succeeded
Translated(r) == r.fetch = "found" /\ r.watched /\ r.translateOK

\* the Reconcile recorded in r removed its AuthConfig from the index
Removed(r) == r.fetch = "notFound" \/ (r.fetch = "found" /\ ~r.watched)

\* the hosts that resolve, in index e, to an APIConfig installed for id
HostsOf(e, id) == {h \in Hosts : e[h] # NoEntry /\ e[h].Id = id}

\* the APIConfigs some host resolves to
Served(e) == {e[h].APIConfig : h \in Hosts} \ {0}

\* C1: when Reconcile processes an existing, watched AuthConfig and one of its
\* hosts h is bound to a config id of another namespace, the binding of h is
\* left intact: FindId(h) and Get(h) are the same after the Reconcile. (When
\* the translation fails the hosts listed are not read: h is then any host.)
C1_CollidingHostKeepsBinding ==
    [][\A h \in Hosts :
          (/\ last'.fetch = "found" /\ last'.watched
           /\ last'.translateOK => h \in last'.hosts
           /\ TakenElsewhere(entries, h, last'.req.Namespace))
          => /\ CacheFound(entries', h)
             /\ CacheFindId(entries', h) = CacheFindId(entries, h)
             /\ CacheGet(entries', h) = CacheGet(entries, h)]_vars

C1_Witness ==
    /\ Translated(last)
    /\ last.log = "host already taken in another namespace"
    /\ \E h \in last.hosts : TakenElsewhere(entries, h, last.req.Namespace)

\* C2: if an AuthConfig has no bindings before Reconcile and one of the hosts
\* it lists is taken by a config of another namespace, it has no bindings
\* after Reconcile, whatever the number and the order of its hosts.
C2_CollidingConfigGetsNoBinding ==
    [][(/\ Translated(last')
        /\ CacheFindKeys(keys, ReqString(last'.req)) = {}
        /\ HostsOf(entries, ReqString(last'.req)) = {}
        /\ \E h \in last'.hosts : TakenElsewhere(entries, h, last'.req.Namespace))
       => /\ CacheFindKeys(keys', ReqString(last'.req)) = {}
          /\ HostsOf(entries', ReqString(last'.req)) = {}]_vars

\* C3: a Reconcile that ends in the host-taken branch is a no-op: all
\* bindings and reverse entries are as before, and no APIConfig that is still
\* in the index had Clean invoked on it by this Reconcile.
C3_HostTakenIsNoOp ==
    [][(/\ Translated(last')
        /\ last'.log = "host already taken in another namespace")
       => /\ entries' = entries
          /\ keys' = keys
          /\ \A c \in Served(entries') : cleaned'[c] = cleaned[c]]_vars

\* C4: Clean is invoked exactly once on each APIConfig that was installed in
\* the host index and was then replaced or deleted: never twice on an
\* installed APIConfig, and not zero times on one that is out of the index.
C4_CleanExactlyOnce ==
    \A c \in installed :
       /\ cleaned[c] # "repeated"
       /\ (c \notin Served(entries)) => cleaned[c] = "once"

\* C5: if translateAuthConfig fails, Reconcile returns the error, makes no
\* Cache.Set call, and every host bound to the config id resolves to the same
\* APIConfig as before.
C5_FailedTranslationKeepsPrior ==
    [][(last'.fetch = "found" /\ last'.watched /\ ~last'.translateOK)
       => /\ last'.err = "translateError"
          /\ last'.setCalls = 0
          /\ \A h \in Hosts :
                CacheFindId(entries, h) = ReqString(last'.req)
                => entries'[h] = entries[h]]_vars

C5_Witness ==
    /\ last.fetch = "found" /\ last.watched /\ ~last.translateOK
    /\ last.target # 0
    /\ HostsOf(entries, ReqString(last.req)) # {}

\* C6: the host index is forward/reverse consistent after every Reconcile:
\* every host h with Get(h) non-nil has FindId(h) found and is in
\* FindKeys(FindId(h)).
C6_ForwardReverseConsistent ==
    \A h \in Hosts :
       CacheGet(entries, h) # 0
       => /\ CacheFound(entries, h)
          /\ h \in CacheFindKeys(keys, CacheFindId(entries, h))

C6_Witness ==
    /\ \A h \in Hosts : CacheGet(entries, h) # 0
    /\ \E h1, h2 \in Hosts : CacheFindId(entries, h1) # CacheFindId(entries, h2)
    /\ \E h \in Hosts, id \in CacheIds :
          id # CacheFindId(entries, h) /\ h \in CacheFindKeys(keys, id)

\* C7: after Reconcile for an AuthConfig that is not found or not watched, all
\* bindings of its config id are gone: FindKeys(id) is empty and no host has
\* FindId(h) = id.
C7_RemovedConfigHasNoBinding ==
    Removed(last)
    => /\ CacheFindKeys(keys, ReqString(last.req)) = {}
       /\ \A h \in Hosts :
             ~(CacheFound(entries, h) /\ CacheFindId(entries, h) = ReqString(last.req))

C7_Witness ==
    /\ last.fetch = "found" /\ ~last.watched
    /\ last.target # 0
    /\ last.target \notin Served(entries)

\* C8: when a host of the reconciled AuthConfig is taken by a config of
\* another namespace, Reconcile returns a nil error and an empty result.
C8_HostTakenReturnsNil ==
    [][(/\ Translated(last')
        /\ \E h \in last'.hosts : TakenElsewhere(entries, h, last'.req.Namespace))
       => /\ last'.err = "nil"
          /\ last'.result = [Requeue |-> FALSE, RequeueAfter |-> 0]]_vars

C8_Witness ==
    /\ Translated(last)
    /\ Cardinality(last.hosts) = 2
    /\ last.setCalls = 1
    /\ last.err = "nil"
    /\ \E h \in last.hosts : TakenElsewhere(entries, h, last.req.Namespace)

\* C9: when host h is bound to config A and a Reconcile of another AuthConfig
\* B of the same namespace that lists h succeeds, then FindId(h) = B and
\* Get(h) is the APIConfig built for B.
C9_NewerConfigSupersedes ==
    [][\A h \in Hosts :
          (/\ Translated(last')
           /\ last'.err = "nil"
           /\ last'.log = "resource reconciled"
           /\ h \in last'.hosts
           /\ CacheFound(entries, h)
           /\ CacheFindId(entries, h) # ReqString(last'.req)
           /\ OwnerNamespace(CacheFindId(entries, h)) = last'.req.Namespace)
          => /\ CacheFound(entries', h)
             /\ CacheFindId(entries', h) = ReqString(last'.req)
             /\ CacheGet(entries', h) = built'
             /\ built' = built + 1]_vars

C9_Witness ==
    /\ Translated(last)
    /\ last.log = "resource reconciled"
    /\ built = 2
    /\ \E h \in last.hosts, id \in CacheIds :
          /\ id # ReqString(last.req)
          /\ OwnerNamespace(id) = last.req.Namespace
          /\ h \in CacheFindKeys(keys, id)
          /\ entries[h] = [Id |-> ReqString(last.req), APIConfig |-> 2]

----------------------------------------------------------------------------
\* The OIDC evaluator alone: the operations on one evaluator, one at a time.

\* How often Clean has been invoked, after one more invocation.
Again(cleans) == IF cleans = "never" THEN "once" ELSE "repeated"

InitOIDC ==
    /\ ReconcilerInit
    /\ GenericHttpIdle
    /\ \E ttl \in TTLs, disc \in DiscoveryResults : oidc = NewOIDC(ttl, disc)
    /\ goroutines = NoGoroutines
    /\ APIKeyIdle
    /\ TranslationIdle

\* A request's Call.
CallOIDC(cred, ctx, disc) ==
    LET r == OIDCCall(oidc.provider, cred, ctx, disc) IN
    /\ oidc' = [oidc EXCEPT
                  !.provider = r.provider,
                  !.op = Op("Call", cred, ctx, "userinfo_endpoint", oidc.provider,
                            oidc.refresher, oidc.cleans, disc, r)]
    /\ UNCHANGED <<notOIDC, goroutines>>

\* One run of the refresh worker's task: oidc.getProvider(ctx, true).
Refresh(disc) ==
    LET g == getProvider(oidc.provider, TRUE, disc) IN
    /\ oidc.refresher = "running"
    /\ oidc' = [oidc EXCEPT
                  !.provider = g.provider,
                  !.op = Op("refresh", <<>>, "live", "userinfo_endpoint",
                            oidc.provider, oidc.refresher, oidc.cleans, disc,
                            Result(g.provider, g.discovered, FALSE, <<>>, "nil"))]
    /\ UNCHANGED <<notOIDC, goroutines>>

\* A UserInfo evaluator's GetURL on the evaluator.
GetURLOIDC(name, disc) ==
    LET r == GetURL(oidc.provider, name, disc) IN
    /\ oidc' = [oidc EXCEPT
                  !.provider = r.provider,
                  !.op = Op("GetURL", <<>>, "live", name, oidc.provider,
                            oidc.refresher, oidc.cleans, disc, r)]
    /\ UNCHANGED <<notOIDC, goroutines>>

\* Clean, invoked by the APIConfig's Clean.
CleanOIDC ==
    LET c == OIDCClean(oidc.provider, oidc.refresher) IN
    /\ oidc' = [oidc EXCEPT
                  !.provider = c.provider,
                  !.refresher = c.refresher,
                  !.cleans = Again(oidc.cleans),
                  !.op = Op("Clean", <<>>, "live", "userinfo_endpoint",
                            oidc.provider, oidc.refresher, oidc.cleans, "none",
                            Result(c.provider, FALSE, FALSE, <<>>, c.err))]
    /\ UNCHANGED <<notOIDC, goroutines>>

NextOIDC ==
    \/ \E cred \in Credentials, ctx \in Contexts, disc \in DiscoveryResults :
          CallOIDC(cred, ctx, disc)
    \/ \E disc \in DiscoveryResults : Refresh(disc)
    \/ \E name \in ClaimNames, disc \in DiscoveryResults : GetURLOIDC(name, disc)
    \/ CleanOIDC

SpecOIDC == InitOIDC /\ [][NextOIDC]_vars

\* C11: Clean leaves the provider as it was, and a Call made after Clean on an
\* evaluator that holds a provider verifies the token against that provider,
\* without a new discovery, and returns the claims of a token that is valid
\* for it.
C11_CallAfterCleanUsesLastProvider ==
    /\ oidc.op.name = "Clean" => oidc.provider = oidc.op.provider
    /\ ( /\ oidc.op.name = "Call"
         /\ oidc.op.cleans # "never"
         /\ oidc.op.provider # "nil"
         /\ oidc.op.cred # <<>>
         /\ oidc.op.ctx = "live" )
       => /\ oidc.op.verified
          /\ ~oidc.op.discovered
          /\ oidc.provider = oidc.op.provider
          /\ (oidc.op.cred = <<oidc.op.provider, "json">>)
               => /\ oidc.op.err = "nil"
                  /\ oidc.op.ret = <<"claims", oidc.op.provider>>

C11_Witness ==
    /\ oidc.op.name = "Call"
    /\ oidc.op.cleans # "never"
    /\ oidc.op.refresher = "stopped"
    /\ oidc.op.ret = <<"claims", oidc.op.provider>>

C13_NoRefreshAfterClean ==
    /\ oidc.op.name = "refresh" => oidc.op.cleans = "never"
    /\ oidc.cleans # "never" => oidc.refresher # "running"
    /\ (oidc.op.name = "Clean" /\ oidc.op.refresher = "nil")
       => /\ oidc.op.err = "nil"
          /\ oidc.provider = oidc.op.provider
          /\ oidc.refresher = "nil"

C13_Witness ==
    /\ oidc.op.name = "Clean"
    /\ oidc.op.refresher = "running"
    /\ oidc.refresher = "stopped"
    /\ oidc.op.err = "nil"

\* C16: Call returns claims only for an extracted credential that verifies
\* against the provider held, which is not nil; it returns an error and no
\* claims when no credential is extracted, when no provider is held even
\* after the discovery retry, and when the verification fails.
C16_CallFailsClosed ==
    oidc.op.name = "Call"
    => /\ (oidc.op.ret = <<>>) <=> (oidc.op.err # "nil")
       /\ oidc.op.ret # <<>>
          => /\ oidc.op.cred # <<>>
             /\ oidc.op.verified
             /\ oidc.provider # "nil"
             /\ oidc.op.cred[1] = oidc.provider
       /\ oidc.op.cred = <<>> => oidc.op.err = "credential not found"
       /\ (oidc.op.cred # <<>> /\ oidc.op.ctx = "live" /\ oidc.provider = "nil")
          => /\ oidc.op.discovered
             /\ oidc.op.err = "missing openid connect configuration"
       /\ ( /\ oidc.op.cred # <<>>
            /\ oidc.provider # "nil"
            /\ oidc.op.cred[1] # oidc.provider )
          => oidc.op.ret = <<>>

C16_Witness ==
    /\ oidc.op.name = "Call"
    /\ oidc.op.cred # <<>>
    /\ oidc.op.discovered
    /\ oidc.op.err = "missing openid connect configuration"

\* C17: a Call with a credential and a context that is already cancelled or
\* expired returns the context's error, and neither discovery nor token
\* verification is started.
C17_CallObservesCancellation ==
    (oidc.op.name = "Call" /\ oidc.op.cred # <<>> /\ oidc.op.ctx # "live")
    => /\ oidc.op.err = oidc.op.ctx
       /\ oidc.op.ret = <<>>
       /\ ~oidc.op.discovered
       /\ ~oidc.op.verified
       /\ oidc.provider = oidc.op.provider

C17_Witness ==
    /\ oidc.op.name = "Call"
    /\ oidc.op.cred # <<>>
    /\ oidc.op.ctx = "context canceled"
    /\ oidc.op.provider = "nil"
    /\ oidc.op.err = "context canceled"

\* C18: GetURL never panics (original statement).
C18_GetURLNeverPanics ==
    oidc.op.name = "GetURL" => oidc.op.err # "panic"

\* C34: the provider held never regresses. An operation that found a provider
\* leaves one; an operation whose discovery failed, or that ran no discovery,
\* leaves the provider it found; and the provider is replaced only by the
\* answer of a discovery that succeeded.
C34_ProviderNeverRegresses ==
    /\ oidc.op.provider # "nil" => oidc.provider # "nil"
    /\ (oidc.op.discovered /\ oidc.op.answer = "error")
       => oidc.provider = oidc.op.provider
    /\ ~oidc.op.discovered => oidc.provider = oidc.op.provider
    /\ oidc.provider # oidc.op.provider
       => /\ oidc.op.discovered
          /\ oidc.op.answer \in ProviderConfigs
          /\ oidc.provider = oidc.op.answer

C34_Witness ==
    /\ oidc.op.name = "refresh"
    /\ oidc.op.provider = "A"
    /\ oidc.op.discovered
    /\ oidc.op.answer = "error"
    /\ oidc.provider = "A"

\* The evaluator with its refresh worker scheduled fairly: while the worker
\* runs, its task is run again and again.
SpecOIDCLive == SpecOIDC /\ WF_vars(\E disc \in DiscoveryResults : Refresh(disc))

\* C35: an evaluator that holds no provider recovers. A Call with a credential
\* and a live context retries the discovery and, when it succeeds, holds the
\* answer and accepts a token valid for it; a token valid for the provider
\* held is accepted; and if from some point on no discovery fails, an
\* evaluator without provider whose refresh worker runs comes to hold a
\* provider, unless the worker is stopped first.
C35_RecoversFromFailedDiscovery ==
    /\ []( ( /\ oidc.op.name = "Call"
             /\ oidc.op.provider = "nil"
             /\ oidc.op.cred # <<>>
             /\ oidc.op.ctx = "live"
             /\ oidc.op.answer # "error" )
           => /\ oidc.op.discovered
              /\ oidc.provider = oidc.op.answer
              /\ (oidc.op.cred = <<oidc.provider, "json">>)
                 => /\ oidc.op.err = "nil"
                    /\ oidc.op.ret = <<"claims", oidc.provider>> )
    /\ []( ( /\ oidc.op.name = "Call"
             /\ oidc.op.provider # "nil"
             /\ oidc.op.ctx = "live"
             /\ oidc.op.cred = <<oidc.op.provider, "json">> )
           => /\ oidc.op.err = "nil"
              /\ oidc.op.ret = <<"claims", oidc.op.provider>> )
    /\ (<>[](oidc.op.answer # "error"))
       => ( (oidc.provider = "nil" /\ oidc.refresher = "running")
            ~> (oidc.provider # "nil" \/ oidc.refresher # "running") )

C35_Witness ==
    /\ oidc.op.name = "refresh"
    /\ oidc.op.provider = "nil"
    /\ oidc.op.answer \in ProviderConfigs
    /\ oidc.provider = oidc.op.answer
    /\ oidc.op.refresher = "running"

----------------------------------------------------------------------------
\* getProvider step by step, run by the refresh worker's goroutine
\* (force = true) and by a request's goroutine (force = false, from
\* verifyToken or GetURL). A pc names the next access of the goroutine to the
\* provider field: the read of line 58, the write of line 64, the read of
\* line 68. The code takes no lock and uses no atomic around any of them.

InitRace ==
    /\ ReconcilerInit
    /\ GenericHttpIdle
    /\ \E ttl \in TTLs, disc \in DiscoveryResults : oidc = NewOIDC(ttl, disc)
    /\ goroutines = NoGoroutines
    /\ APIKeyIdle
    /\ TranslationIdle

ProviderAccesses == {"read58", "write64", "read68"}

\* The goroutine's position after its read of line 58.
AfterRead58(read, force) == IF read = "nil" \/ force THEN "discover" ELSE "read68"

\* The goroutine's position after goidc.NewProvider answered.
AfterDiscover(disc) == IF disc = "error" THEN "read68" ELSE "write64"

\* The worker's ticker fires and the task calls getProvider(ctx, true).
WorkerTick ==
    /\ oidc.refresher = "running"
    /\ goroutines.worker.pc = "select"
    /\ goroutines' = [goroutines EXCEPT !.worker.pc = "read58"]
    /\ UNCHANGED <<notOIDC, oidc>>

WorkerRead58 ==
    /\ goroutines.worker.pc = "read58"
    /\ goroutines' = [goroutines EXCEPT
                        !.worker.pc = AfterRead58(oidc.provider, TRUE)]
    /\ UNCHANGED <<notOIDC, oidc>>

WorkerDiscover(disc) ==
    /\ goroutines.worker.pc = "discover"
    /\ goroutines' = [goroutines EXCEPT
                        !.worker = [pc |-> AfterDiscover(disc), disc |-> disc]]
    /\ UNCHANGED <<notOIDC, oidc>>

WorkerWrite64 ==
    /\ goroutines.worker.pc = "write64"
    /\ oidc' = [oidc EXCEPT !.provider = goroutines.worker.disc]
    /\ goroutines' = [goroutines EXCEPT !.worker.pc = "read68"]
    /\ UNCHANGED notOIDC

WorkerRead68 ==
    /\ goroutines.worker.pc = "read68"
    /\ goroutines' = [goroutines EXCEPT !.worker.pc = "select"]
    /\ UNCHANGED <<notOIDC, oidc>>

\* A request reaches getProvider(ctx, false).
RequestBegin ==
    /\ goroutines.request.pc = "idle"
    /\ goroutines' = [goroutines EXCEPT !.request.pc = "read58"]
    /\ UNCHANGED <<notOIDC, oidc>>

RequestRead58 ==
    /\ goroutines.request.pc = "read58"
    /\ goroutines' = [goroutines EXCEPT
                        !.request.pc = AfterRead58(oidc.provider, FALSE)]
    /\ UNCHANGED <<notOIDC, oidc>>

RequestDiscover(disc) ==
    /\ goroutines.request.pc = "discover"
    /\ goroutines' = [goroutines EXCEPT
                        !.request.pc = AfterDiscover(disc),
                        !.request.disc = disc]
    /\ UNCHANGED <<notOIDC, oidc>>

RequestWrite64 ==
    /\ goroutines.request.pc = "write64"
    /\ oidc' = [oidc EXCEPT !.provider = goroutines.request.disc]
    /\ goroutines' = [goroutines EXCEPT !.request.pc = "read68"]
    /\ UNCHANGED notOIDC

\* The request's getProvider returns the provider it reads.
RequestRead68 ==
    /\ goroutines.request.pc = "read68"
    /\ goroutines' = [goroutines EXCEPT
                        !.request.pc = "idle",
                        !.request.read = oidc.provider]
    /\ UNCHANGED <<notOIDC, oidc>>

NextRace ==
    \/ WorkerTick
    \/ WorkerRead58
    \/ \E disc \in DiscoveryResults : WorkerDiscover(disc)
    \/ WorkerWrite64
    \/ WorkerRead68
    \/ RequestBegin
    \/ RequestRead58
    \/ \E disc \in DiscoveryResults : RequestDiscover(disc)
    \/ RequestWrite64
    \/ RequestRead68

SpecRace == InitRace /\ [][NextRace]_vars

\* C14: the refresh worker's write of the provider field is never concurrent
\* with an access of a request to the field (original statement): the worker
\* is never about to write while a request is about to read or write.
C14_NoConcurrentProviderAccess ==
    ~ ( /\ goroutines.worker.pc = "write64"
        /\ goroutines.request.pc \in ProviderAccesses )

----------------------------------------------------------------------------
\* The API-key evaluator alone, in a cluster whose Secrets come and go.

InitAPIKey ==
    /\ ReconcilerInit
    /\ GenericHttpIdle
    /\ OIDCIdle
    /\ TranslationIdle
    /\ refresh = NoRefresh
    /\ cluster \in SUBSET SecretUniverse
    /\ \E d \in APIKeyDeclarations :
          LET namespace == APIKeyNamespace(d.authConfigNamespace, d.allNamespaces,
                                           d.reconcilerNamespace)
          IN \E listing \in Listings(cluster, namespace) :
                apiKey = NewApiKeyIdentity(d, namespace, listing)

\* A request's Call.
CallAPIKey(cred) ==
    LET r == APIKeyCall(apiKey.authorizedCredentials, cred) IN
    /\ apiKey' = [apiKey EXCEPT
                    !.op = APIKeyOp("Call", cred, apiKey.authorizedCredentials,
                                    r.secret, r.err)]
    /\ UNCHANGED <<notAPIKey, cluster, refresh>>

\* A refresh of the credentials: GetCredentialsFromCluster on the evaluator.
RefreshAPIKey(listing) ==
    LET g == GetCredentialsFromCluster(apiKey.authorizedCredentials, listing) IN
    /\ listing \in Listings(cluster, apiKey.Namespace)
    /\ apiKey' = [apiKey EXCEPT
                    !.authorizedCredentials = g.authorizedCredentials,
                    !.op = APIKeyOp("GetCredentialsFromCluster", <<>>,
                                    apiKey.authorizedCredentials, NoSecret, g.err)]
    /\ UNCHANGED <<notAPIKey, cluster, refresh>>

\* The cluster gains or loses a Secret.
SecretCreated(s) ==
    /\ s \notin cluster
    /\ cluster' = cluster \cup {s}
    /\ UNCHANGED <<notAPIKey, apiKey, refresh>>

SecretDeleted(s) ==
    /\ s \in cluster
    /\ cluster' = cluster \ {s}
    /\ UNCHANGED <<notAPIKey, apiKey, refresh>>

NextAPIKey ==
    \/ \E cred \in RequestKeys : CallAPIKey(cred)
    \/ \E listing \in Listings(cluster, apiKey.Namespace) : RefreshAPIKey(listing)
    \/ \E s \in SecretUniverse : SecretCreated(s)
    \/ \E s \in SecretUniverse : SecretDeleted(s)

SpecAPIKey == InitAPIKey /\ [][NextAPIKey]_vars

\* C15: Call returns a Secret and no error exactly when a credential is
\* extracted that is a key of the authorized credentials, and the Secret is
\* the one stored under it, whose api_key value is the credential; an
\* extracted credential that is no key gives the 'invalid' error and no
\* Secret; a failed extraction gives the extraction error and no Secret.
C15_CallMatchesStoredKey ==
    apiKey.op.name = "Call"
    => LET op == apiKey.op
           creds == apiKey.authorizedCredentials
       IN /\ (op.err = "nil") <=> (op.cred # <<>> /\ op.cred[1] \in DOMAIN creds)
          /\ (op.err = "nil")
             => /\ op.secret = creds[op.cred[1]]
                /\ op.secret.key = op.cred[1]
                /\ op.secret \in SecretUniverse
          /\ (op.cred # <<>> /\ op.cred[1] \notin DOMAIN creds)
             => /\ op.err = "the API Key provided is invalid"
                /\ op.secret = NoSecret
          /\ (op.cred = <<>>)
             => /\ op.err = "credential not found"
                /\ op.secret = NoSecret

C15_Witness ==
    /\ apiKey.op.name = "Call"
    /\ apiKey.op.err = "nil"
    /\ apiKey.op.secret.Name = "s3"
    /\ apiKey.op.cred = <<"k1">>

\* C19: the evaluator lists across all namespaces exactly when the identity
\* sets allNamespaces and the reconciler is cluster-wide; otherwise its
\* namespace is the AuthConfig's and every Secret it holds or returns is of
\* that namespace.
C19_CrossNamespaceOnlyWhenClusterWide ==
    LET d == apiKey.from
        creds == apiKey.authorizedCredentials
    IN /\ (apiKey.Namespace = <<>>)
          <=> (d.allNamespaces /\ d.reconcilerNamespace = <<>>)
       /\ (apiKey.Namespace # <<>>)
          => /\ apiKey.Namespace = d.authConfigNamespace
             /\ \A k \in DOMAIN creds : creds[k].Namespace = d.authConfigNamespace
             /\ (apiKey.op.name = "Call" /\ apiKey.op.err = "nil")
                => apiKey.op.secret.Namespace = d.authConfigNamespace

C19_Witness ==
    /\ apiKey.from.allNamespaces
    /\ apiKey.from.reconcilerNamespace = <<"r">>
    /\ apiKey.op.name = "Call"
    /\ apiKey.op.cred = <<"k2">>
    /\ apiKey.op.err = "the API Key provided is invalid"
    /\ \E s \in cluster : s.key = "k2" /\ s.labelled
    /\ apiKey.op.before # <<>>

\* C36: a refresh whose listing fails returns the error and leaves the
\* authorized credentials as they were; a refresh whose listing succeeds
\* replaces them by the listing: Call then accepts exactly the keys of the
\* Secrets listed, a key whose Secret is no longer listed is rejected, a
\* newly listed key is accepted, and the Secret returned is a listed one of
\* that key. An evaluator whose initial listing failed holds no credentials
\* and rejects every request.
C36_RefreshReplacesOrKeepsCredentials ==
    /\ []( (apiKey.op.name = "NewApiKeyIdentity" /\ apiKey.op.err # "nil")
           => /\ apiKey.authorizedCredentials = <<>>
              /\ \A cred \in RequestKeys :
                    APIKeyCall(apiKey.authorizedCredentials, cred).err # "nil" )
    /\ [][(cluster' = cluster /\ apiKey'.op.name = "GetCredentialsFromCluster")
          => LET listed == Listed(cluster, apiKey.Namespace)
                 after == apiKey'.authorizedCredentials
             IN /\ apiKey'.op.before = apiKey.authorizedCredentials
                /\ apiKey'.op.err # "nil"
                   => after = apiKey.authorizedCredentials
                /\ apiKey'.op.err = "nil"
                   => /\ DOMAIN after = {s.key : s \in listed}
                      /\ \A cred \in RequestKeys \ {<<>>} :
                            LET r == APIKeyCall(after, cred) IN
                            /\ (r.err = "nil") <=> (\E s \in listed : s.key = cred[1])
                            /\ r.err = "nil"
                               => r.secret \in listed /\ r.secret.key = cred[1]]_vars

C36_Witness ==
    /\ apiKey.op.name = "GetCredentialsFromCluster"
    /\ apiKey.op.err = "nil"
    /\ \E k \in DOMAIN apiKey.op.before : k \notin DOMAIN apiKey.authorizedCredentials
    /\ \E k \in DOMAIN apiKey.authorizedCredentials : k \notin DOMAIN apiKey.op.before

----------------------------------------------------------------------------
\* translateAuthConfig alone, applied to each AuthConfig. Reconcile installs
\* under the AuthConfig's hosts the APIConfig of every translation that
\* returns no error.

InitTranslate ==
    /\ ReconcilerInit
    /\ GenericHttpIdle
    /\ OIDCIdle
    /\ APIKeyIdle
    /\ \E authConfig \in AuthConfigs : translation = Untranslated(authConfig)
    /\ denial = NoDenial
    /\ expansion = NoExpansion

Translate ==
    LET t == translateAuthConfig(translation.authConfig) IN
    /\ ~translation.done
    /\ translation' = [translation EXCEPT
                         !.done = TRUE, !.apiConfig = t.apiConfig, !.err = t.err]
    /\ UNCHANGED <<notTranslate, denial, expansion>>

NextTranslate == Translate

SpecTranslate == InitTranslate /\ [][NextTranslate]_vars

\* The evaluators of a phase have names that differ two by two.
DistinctNames(configs) ==
    \A i, j \in DOMAIN configs : configs[i].Name = configs[j].Name => i = j

\* C20: no APIConfig that translateAuthConfig returns without error, which
\* Reconcile installs, holds two evaluators of one phase with one name
\* (original statement).
C20_NoDuplicateNamesInPhase ==
    (translation.done /\ translation.err = "nil")
    => /\ DistinctNames(translation.apiConfig.IdentityConfigs)
       /\ DistinctNames(translation.apiConfig.MetadataConfigs)
       /\ DistinctNames(translation.apiConfig.AuthorizationConfigs)
       /\ DistinctNames(translation.apiConfig.ResponseConfigs)

----------------------------------------------------------------------------
\* The deny values of translateAuthConfig alone, applied to each DenyWith.

InitDenyWith ==
    /\ ReconcilerInit
    /\ GenericHttpIdle
    /\ OIDCIdle
    /\ APIKeyIdle
    /\ translation = NoTranslation
    /\ expansion = NoExpansion
    /\ \E denyWith \in DenyWiths : denial = UntranslatedDenial(denyWith)

TranslateDenyWith ==
    LET t == translateDenyWith(denial.denyWith) IN
    /\ ~denial.done
    /\ denial' = [denial EXCEPT
                    !.done = TRUE,
                    !.Unauthenticated = t.Unauthenticated,
                    !.Unauthorized = t.Unauthorized]
    /\ UNCHANGED <<notTranslate, translation, expansion>>

NextDenyWith == TranslateDenyWith

SpecDenyWith == InitDenyWith /\ [][NextDenyWith]_vars

\* The deny values built: those of the two blocks that are not nil.
DenyValuesBuilt == {v[1] : v \in {denial.Unauthenticated, denial.Unauthorized} \ {<<>>}}

\* C21: no static-or-dynamic value that translateAuthConfig builds, here the
\* values of the denyWith headers, has both its static literal and its
\* selector pattern set (original statement).
C21_NeverStaticAndPattern ==
    denial.done
    => \A v \in DenyValuesBuilt : \A i \in DOMAIN v.Headers :
          ~(v.Headers[i].Value.Static # "" /\ v.Headers[i].Value.Pattern # "")

\* The deny values keep every part of the block declared.
KeepsAll(values, declared) ==
    IF declared = <<>>
    THEN values = <<>>
    ELSE /\ values # <<>>
         /\ values[1].Code = declared[1].Code
         /\ values[1].Message = declared[1].Message
         /\ DOMAIN values[1].Headers = DOMAIN declared[1].Headers
         /\ \A i \in DOMAIN declared[1].Headers :
               /\ values[1].Headers[i].Name = declared[1].Headers[i].Name
               /\ values[1].Headers[i].Value.Static = declared[1].Headers[i].Value
               /\ values[1].Headers[i].Value.Pattern = declared[1].Headers[i].AuthJSON
         /\ declared[1].Body # <<>>
            => /\ "Body" \in DOMAIN values[1]
               /\ values[1].Body = declared[1].Body

\* C24: the deny values keep the code, the message, each header in the
\* declared order and the body of the block they are built from, each block
\* on its own, and an absent block gives no deny values (original statement).
C24_DenyValuesKeepEveryPart ==
    denial.done
    => IF denial.denyWith = <<>>
       THEN denial.Unauthenticated = <<>> /\ denial.Unauthorized = <<>>
       ELSE /\ KeepsAll(denial.Unauthenticated, denial.denyWith[1].Unauthenticated)
            /\ KeepsAll(denial.Unauthorized, denial.denyWith[1].Unauthorized)

----------------------------------------------------------------------------
\* buildJSONPatternExpressions alone, applied to each list of rules under
\* each map of named patterns.

InitPatterns ==
    /\ ReconcilerInit
    /\ GenericHttpIdle
    /\ OIDCIdle
    /\ APIKeyIdle
    /\ translation = NoTranslation
    /\ denial = NoDenial
    /\ \E patterns \in NamedPatterns, n \in 0..MaxRules :
          \E rules \in [1..n -> JSONPatterns] :
             expansion = Unexpanded(patterns, rules)

Expand ==
    /\ ~expansion.done
    /\ expansion' = [expansion EXCEPT
                       !.done = TRUE,
                       !.expressions =
                           buildJSONPatternExpressions(expansion.patterns,
                                                       expansion.rules)]
    /\ UNCHANGED <<notTranslate, translation, denial>>

NextPatterns == Expand

SpecPatterns == InitPatterns /\ [][NextPatterns]_vars

\* What the rules stand for: a rule with a name stands for the expressions of
\* the pattern of that name, a rule without a name for its own expression.
RECURSIVE Meaning(_, _)
Meaning(patterns, rules) ==
    IF rules = <<>>
    THEN <<>>
    ELSE (IF Head(rules).JSONPatternName # ""
          THEN patterns[Head(rules).JSONPatternName]
          ELSE <<Head(rules).JSONPatternExpression>>)
         \o Meaning(patterns, Tail(rules))

\* Every rule is an inline expression or names a defined pattern.
WellFormed(patterns, rules) ==
    \A i \in DOMAIN rules :
       rules[i].JSONPatternName # "" => rules[i].JSONPatternName \in DOMAIN patterns

\* C22: the output is the concatenation, in order, of the expressions of the
\* named pattern for a rule that refers to a defined pattern and of the
\* rule's own expression for an inline rule, whatever patterns are defined
\* (original statement).
C22_ExpandsRulesInOrder ==
    (expansion.done /\ WellFormed(expansion.patterns, expansion.rules))
    => expansion.expressions = Meaning(expansion.patterns, expansion.rules)

----------------------------------------------------------------------------
\* The evaluators of a translated AuthConfig against its declared entries.

TranslatedWithoutError == translation.done /\ translation.err = "nil"

\* C23: after a successful translation every userinfo metadata evaluator
\* holds a handle that is not nil and is the OIDC evaluator held by the
\* identity evaluator its entry names (original statement).
C23_UserInfoHoldsOIDCOfIdentity ==
    TranslatedWithoutError
    => \A i \in DOMAIN translation.apiConfig.MetadataConfigs :
          LET m == translation.apiConfig.MetadataConfigs[i]
              source == translation.authConfig.Metadata[i].IdentitySource
              ids == translation.apiConfig.IdentityConfigs
          IN m.Type = "userinfo"
             => /\ m.OIDC # 0
                /\ \E j \in DOMAIN ids :
                      ids[j].Name = source /\ ids[j].OIDC = m.OIDC

\* The evaluators of a phase carry what the entries of the phase declare,
\* one evaluator for each entry in the order of the entries.
CarryAll(configs, declared, patterns) ==
    /\ DOMAIN configs = DOMAIN declared
    /\ \A i \in DOMAIN declared :
          /\ configs[i].Name = declared[i].Name
          /\ configs[i].Priority = declared[i].Priority
          /\ configs[i].Conditions = Meaning(patterns, declared[i].Conditions)
          /\ configs[i].Metrics = declared[i].Metrics
          /\ declared[i].Cache # <<>>
             => /\ "Cache" \in DOMAIN configs[i]
                /\ configs[i].Cache # <<>>

\* C25: the evaluators of every phase carry the name, the priority, the
\* expanded conditions, the cache descriptor and the metrics flag of their
\* entries, and each phase has the length and the order declared (original
\* statement).
C25_EvaluatorsCarryCommonAttributes ==
    TranslatedWithoutError
    => LET a == translation.authConfig
           c == translation.apiConfig
       IN /\ CarryAll(c.IdentityConfigs, a.Identity, a.Patterns)
          /\ CarryAll(c.MetadataConfigs, a.Metadata, a.Patterns)
          /\ CarryAll(c.AuthorizationConfigs, a.Authorization, a.Patterns)
          /\ CarryAll(c.ResponseConfigs, a.Response, a.Patterns)

----------------------------------------------------------------------------
\* The generic HTTP evaluator alone: built by translateAuthConfig from an
\* endpoint, then called once.

InitGenericHttp ==
    /\ ReconcilerInit
    /\ OIDCIdle
    /\ APIKeyIdle
    /\ TranslationIdle
    /\ \E n \in 0..MaxSegments : \E segments \in [1..n -> Segments] :
          genericHttp = NotCalled(segments)

CallGenericHttp ==
    /\ ~genericHttp.called
    /\ genericHttp' = [genericHttp EXCEPT
                         !.called = TRUE,
                         !.request = GenericHttpCall(genericHttp.evaluator,
                                                     AuthorizationJSON)]
    /\ UNCHANGED notGenericHttp

NextGenericHttp == CallGenericHttp

SpecGenericHttp == InitGenericHttp /\ [][NextGenericHttp]_vars

\* The text the segments stand for: a literal for itself, a placeholder for
\* the value of its selector, nothing when the selector has no value.
RECURSIVE Resolved(_, _)
Resolved(json, segments) ==
    IF segments = <<>>
    THEN <<>>
    ELSE (IF Head(segments).kind = "literal"
          THEN <<Head(segments).text>>
          ELSE IF Head(segments).text \in DOMAIN json
               THEN <<json[Head(segments).text]>>
               ELSE <<>>)
         \o Resolved(json, Tail(segments))

\* C26: the endpoint that Call hands to BuildRequestWithCredentials is the
\* configured endpoint with every placeholder replaced by the value of its
\* selector in the authorization JSON, and has no placeholder left.
C26_CallResolvesEndpoint ==
    genericHttp.called
    => /\ genericHttp.request.endpoint
            = Resolved(AuthorizationJSON, genericHttp.segments)
       /\ \A i \in DOMAIN genericHttp.request.endpoint :
             genericHttp.request.endpoint[i] \notin {"{", "}"}

\* A call of an evaluator whose endpoint has a literal and a placeholder of
\* a selector with a value.
C26_Witness ==
    /\ genericHttp.called
    /\ \E i, j \in DOMAIN genericHttp.segments :
          /\ genericHttp.segments[i].kind = "literal"
          /\ genericHttp.segments[j].kind = "placeholder"
          /\ genericHttp.segments[j].text \in DOMAIN AuthorizationJSON
    /\ genericHttp.request.endpoint # genericHttp.evaluator.Endpoint

----------------------------------------------------------------------------
\* The API-key evaluator with one refresh and one request, step by step.

InitAPIKeyRace ==
    /\ ReconcilerInit
    /\ GenericHttpIdle
    /\ OIDCIdle
    /\ TranslationIdle
    /\ apiKey = NoAPIKey
    /\ cluster = {}
    /\ \E old \in {<<>>, <<CHOOSE s \in SecretUniverse : s.Name = "s1">>},
          S \in SUBSET {s \in SecretUniverse : s.labelled},
          cred \in RequestKeys :
          \E items \in Orderings(S) :
             refresh = NotRefreshing(parsedSecrets(old), items, cred)

\* GetCredentialsFromCluster, to the listing that succeeds and the empty
\* parsedSecrets.
RefreshList ==
    /\ refresh.writer = "idle"
    /\ refresh' = [refresh EXCEPT
                     !.writer = "parsing",
                     !.overlapped = @ \/ refresh.reader = "begun"]
    /\ UNCHANGED <<notAPIKey, apiKey, cluster>>

\* GetCredentialsFromCluster, whole, when the listing fails.
RefreshListFails ==
    /\ refresh.writer = "idle"
    /\ refresh' = [refresh EXCEPT !.writer = "done"]
    /\ UNCHANGED <<notAPIKey, apiKey, cluster>>

\* One turn of the loop: parsedSecrets[key] = secret.
RefreshParse ==
    /\ refresh.writer = "parsing"
    /\ refresh.next <= Len(refresh.items)
    /\ LET s == refresh.items[refresh.next]
           m == refresh.parsedSecrets
       IN refresh' = [refresh EXCEPT
                        !.parsedSecrets =
                            [k \in (DOMAIN m) \cup {s.key} |->
                                IF k = s.key THEN s ELSE m[k]],
                        !.next = @ + 1]
    /\ UNCHANGED <<notAPIKey, apiKey, cluster>>

\* apiKey.authorizedCredentials = parsedSecrets
RefreshAssign ==
    /\ refresh.writer = "parsing"
    /\ refresh.next > Len(refresh.items)
    /\ refresh' = [refresh EXCEPT !.assigned = TRUE, !.writer = "done"]
    /\ UNCHANGED <<notAPIKey, apiKey, cluster>>

\* Call, to the credential of the request; a request without one ends here.
CallBegin ==
    /\ refresh.reader = "idle"
    /\ IF refresh.cred = <<>>
       THEN refresh' = [refresh EXCEPT
                          !.reader = "done",
                          !.err = APIKeyCall(<<>>, refresh.cred).err]
       ELSE refresh' = [refresh EXCEPT
                          !.reader = "begun",
                          !.overlapped = refresh.writer = "parsing"]
    /\ UNCHANGED <<notAPIKey, apiKey, cluster>>

\* Call, the loop over apiKey.authorizedCredentials and the result.
CallRange ==
    /\ refresh.reader = "begun"
    /\ \E m \in IF refresh.assigned
                THEN Visible(refresh.parsedSecrets, refresh.overlapped)
                ELSE {refresh.before} :
          LET r == APIKeyCall(m, refresh.cred) IN
          refresh' = [refresh EXCEPT !.reader = "done", !.seen = m,
                                     !.secret = r.secret, !.err = r.err]
    /\ UNCHANGED <<notAPIKey, apiKey, cluster>>

NextAPIKeyRace ==
    \/ RefreshList
    \/ RefreshListFails
    \/ RefreshParse
    \/ RefreshAssign
    \/ CallBegin
    \/ CallRange

SpecAPIKeyRace == InitAPIKeyRace /\ [][NextAPIKeyRace]_vars

\* C29: a Call, also one that runs while GetCredentialsFromCluster runs,
\* decides against the complete map from before the refresh or against the
\* complete map built by it, never against a part of the new map (original
\* statement).
C29_CallNeverSeesPartialMap ==
    (refresh.reader = "done" /\ refresh.cred # <<>>)
    => /\ refresh.seen \in {refresh.before, parsedSecrets(refresh.items)}
       /\ refresh.err = APIKeyCall(refresh.seen, refresh.cred).err

----------------------------------------------------------------------------
\* C30: between two Reconcile calls no host resolves to an APIConfig on which
\* Clean has been invoked, whatever Reconcile calls came before, those that
\* failed in translation or met a host collision included (original
\* statement).
C30_NoHostResolvesToCleanedConfig ==
    \A h \in Hosts :
       entries[h] # NoEntry => cleaned[entries[h].APIConfig] = "never"

----------------------------------------------------------------------------
\* C37: a Reconcile whose r.Get fails with an error other than NotFound
\* returns that error and changes nothing: no Clean is invoked, no binding
\* and no reverse entry of the host index is added, removed or changed, and
\* no APIConfig is built.
C37_GetErrorChangesNothing ==
    [][last'.fetch = "error"
       => /\ last'.err = "getError"
          /\ last'.setCalls = 0
          /\ entries' = entries
          /\ keys' = keys
          /\ cleaned' = cleaned
          /\ built' = built]_vars

\* A failed r.Get for an AuthConfig that has a host bound in the index.
C37_Witness ==
    /\ last.fetch = "error"
    /\ last.err = "getError"
    /\ HostsOf(entries, ReqString(last.req)) # {}
    /\ \A c \in Served(entries) : cleaned[c] = "never"

\* C31: a Reconcile of one AuthConfig invokes no Clean on the APIConfig that
\* a host bound to another AuthConfig resolves to, and leaves every binding
\* of another AuthConfig as it is, also when that binding superseded one of
\* its own (original statement). A host that the reconciled AuthConfig lists
\* is not counted: within a namespace the newer config takes it over.
C31_ReconcileLeavesOtherConfigsAlone ==
    [][\A h \in Hosts :
          (/\ CacheFound(entries, h)
           /\ CacheFindId(entries, h) # ReqString(last'.req)
           /\ h \notin last'.hosts)
          => /\ entries'[h] = entries[h]
             /\ cleaned'[CacheGet(entries, h)] = cleaned[CacheGet(entries, h)]]_vars

\* C32: after a Reconcile of an existing, watched AuthConfig that returned no
\* error and met no host collision, the hosts bound to the AuthConfig are
\* exactly the hosts it lists, each resolving to the APIConfig just built
\* (original statement).
C32_BoundHostsAreListedHosts ==
    (Translated(last) /\ last.err = "nil" /\ last.log = "resource reconciled")
    => /\ HostsOf(entries, ReqString(last.req)) = last.hosts
       /\ \A h \in last.hosts : CacheGet(entries, h) = built

\* C33: all hosts recorded for one config id resolve to the same APIConfig
\* (original statement).
C33_HostsOfOneIdShareConfig ==
    \A id \in CacheIds :
       \A h1, h2 \in CacheFindKeys(keys, id) :
          CacheGet(entries, h1) = CacheGet(entries, h2)

TypeOK ==
    /\ entries \in [Hosts -> {NoEntry} \cup [Id : CacheIds, APIConfig : Configs]]
    /\ keys \in [CacheIds -> SUBSET Hosts]
    /\ cleaned \in [Configs -> {"never", "once", "repeated"}]
    /\ built \in 0..MaxConfigs
    /\ installed \subseteq Configs
    /\ procs \in [Workers -> [pc : {"idle", "delete", "findId", "set"},
                              req : Requests, cfg : 0..MaxConfigs,
                              todo : SUBSET Hosts, host : Hosts \cup {"none"}]]
    /\ oidc.provider \in ProviderConfigs \cup {"nil"}
    /\ oidc.refresher \in {"nil", "running", "stopped"}
    /\ oidc.cleans \in {"never", "once", "repeated"}
    /\ goroutines.worker.pc \in ProviderAccesses \cup {"select", "discover"}
    /\ goroutines.request.pc \in ProviderAccesses \cup {"idle", "discover"}
    /\ cluster \subseteq SecretUniverse
    /\ apiKey.Namespace \in Namespaces \cup {<<>>}
    /\ \A k \in DOMAIN apiKey.authorizedCredentials :
          apiKey.authorizedCredentials[k] \in SecretUniverse
    /\ translation.done \in BOOLEAN
    /\ denial.done \in BOOLEAN
    /\ expansion.done \in BOOLEAN
    /\ genericHttp.called \in BOOLEAN
    /\ refresh.writer \in {"idle", "parsing", "done"}
    /\ refresh.reader \in {"idle", "begun", "done"}
    /\ refresh.next \in 1..(Len(refresh.items) + 1)
====
